---- MODULE Spec2Model ----
(***************************************************************************)
(* A model of tinyvectors: the physics core (SpatialHash, GaussianKernel,  *)
(* SpringSystem and the BlobPhysics orchestrator), the physics worker,     *)
(* DeviceMotion, and ScrollHandler with the wheel handling of the          *)
(* TinyVectors component.                                                  *)
(*                                                                         *)
(* Each component has its own specification (SpecHash, SpecSpring, ...)    *)
(* over its own variables; the variables of the other components stay at   *)
(* their idle value in that specification.                                 *)
(*                                                                         *)
(* Numbers.  The source computes in IEEE doubles.  Positions of the        *)
(* spatial hash are modelled on an integer grid (every operation of the    *)
(* hash is exact on integers).  The spring system is modelled in fixed     *)
(* point, see the SpringSystem section.                                    *)
(***************************************************************************)
EXTENDS Integers, Sequences, FiniteSets, TLC

VARIABLES
    \* ---- SpatialHash ----
    cellSize,      \* SpatialHash.cellSize
    hblobs,        \* the blobs handed to rebuild: blob id -> [x, y]
    cells,         \* SpatialHash.cells: insertion-ordered Map key -> blob ids
    hashBuilt,     \* TRUE once rebuild(hblobs) has run on the current blobs
    hashOut,       \* the result of the last query / getAllPairs call
    \* ---- SpringSystem ----
    sprPts,        \* ControlPoint[]: [radius, baseRadius] of each point
    sprVel,        \* ControlPointVelocity[]: radialVelocity of each point
    sprPhase,      \* "new" until the first update call, then "updated"
    sprStart,      \* the points and velocities the caller started from
    \* ---- BlobPhysics.generateConvexHull ----
    hullPts,       \* the points handed to generateConvexHull
    hullOut,       \* the returned hull, or NoHull before the call
    \* ---- GaussianKernel ----
    kernArgs,      \* the arguments of new GaussianKernel(size, sigma)
    kernSize,      \* GaussianKernel.size
    kernWeights,   \* GaussianKernel.weights
    kernPts,       \* the radius of each ControlPoint handed to convolve
    kernStart,     \* the radii before the call
    kernPhase,     \* "new", then "convolved" or "array" after the call made
    kernOut,       \* the buffer returned by convolveArray
    numBlobs,      \* BlobPhysics.numBlobs
    physBlobs,     \* BlobPhysics.blobs (centre, velocity and collision fields)
    initialized,   \* BlobPhysics.initialized
    useSpatialHash, \* BlobPhysics.config.useSpatialHash
    useSpringSystem, \* BlobPhysics.config.useSpringSystem
    gravity,       \* BlobPhysics.gravity
    scrollStickiness, \* BlobPhysics.scrollStickiness
    mouse,         \* BlobPhysics.mouseX, mouseY
    physCells,     \* the Map of BlobPhysics.spatialHash
    ticks,         \* the number of ticks run since init()
    pass,          \* the last anti-clustering pass: blobs before, pushes, blobs after,
                   \* and the pushes of the other collision mode from the same blobs
    lifecycle,     \* the last lifecycle call: "none", "init" or "dispose"
    noop,          \* "tick" or "init" when the last call was one that found
                   \* nothing to do, else "none"
    \* ---- physics.worker ----
    hasPhysics,    \* physics !== null; the instance is in the BlobPhysics variables
    isInitialized, \* isInitialized of the worker
    microtasks,    \* the pending then-callbacks of physics.init()
    handled,       \* the type of the last message handled ("then" for the callback)
    posted,        \* the messages posted by the last handler or callback
    readyPosted,   \* 'ready' has been posted for the instance held
    \* ---- DeviceMotion ----
    dmWindow,      \* the window: secure context, motion API, permission prompt
    dmUseMotionAPI, \* DeviceMotion.useMotionAPI
    dmIsListening, \* DeviceMotion.isListening
    dmAwait,       \* where initialize() is: "idle", "permission" or "returned"
    dmListeners,   \* the event types the instance has a listener attached for
    dmCleanedUp,   \* "no", or where initialize() was when cleanup() last returned
    dmDelivered,   \* the data of the last call of the callback, if any
    \* ---- ScrollHandler and the wheel handling of the TinyVectors component ----
    scrollHandler, \* scrollHandler !== null in the component
    shStickiness,  \* ScrollHandler.stickiness
    shLastScrollTime, \* ScrollHandler.lastScrollTime
    shScrollVelocity, \* ScrollHandler.scrollVelocity
    shTotalScrollDistance, \* ScrollHandler.totalScrollDistance
    shScrollStartTime, \* ScrollHandler.scrollStartTime
    shIsScrolling, \* ScrollHandler.isScrolling
    shScrollDirection, \* ScrollHandler.scrollDirection
    shPullForces,  \* ScrollHandler.pullForces
    shPeakVelocity, \* ScrollHandler.peakVelocity
    timeouts,      \* the pending setTimeout callbacks of handleScroll
    decayFrames,   \* the decay callbacks requested for the next animation frame
    now,           \* Date.now()
    wheelEvents,   \* the number of wheel events dispatched so far
    shHandled      \* the last step: "none", "ready", "wheel", "frame", "timeout"

hashVars == <<cellSize, hblobs, cells, hashBuilt, hashOut>>

springVars == <<sprPts, sprVel, sprPhase, sprStart>>

hullVars == <<hullPts, hullOut>>

kernelVars == <<kernArgs, kernSize, kernWeights, kernPts, kernStart, kernPhase, kernOut>>

physicsVars == <<numBlobs, physBlobs, initialized, useSpatialHash, useSpringSystem, gravity,
                 scrollStickiness, mouse, physCells, ticks, pass, lifecycle, noop>>

workerVars == <<hasPhysics, isInitialized, microtasks, handled, posted, readyPosted>>

motionVars == <<dmWindow, dmUseMotionAPI, dmIsListening, dmAwait, dmListeners, dmCleanedUp,
                dmDelivered>>

scrollVars == <<scrollHandler, shStickiness, shLastScrollTime, shScrollVelocity,
                shTotalScrollDistance, shScrollStartTime, shIsScrolling, shScrollDirection,
                shPullForces, shPeakVelocity, timeouts, decayFrames, now, wheelEvents,
                shHandled>>

vars == <<cellSize, hblobs, cells, hashBuilt, hashOut,
          sprPts, sprVel, sprPhase, sprStart, hullPts, hullOut,
          kernArgs, kernSize, kernWeights, kernPts, kernStart, kernPhase, kernOut,
          numBlobs, physBlobs, initialized, useSpatialHash, useSpringSystem, gravity,
          scrollStickiness, mouse, physCells, ticks, pass, lifecycle, noop,
          hasPhysics, isInitialized, microtasks, handled, posted, readyPosted,
          dmWindow, dmUseMotionAPI, dmIsListening, dmAwait, dmListeners, dmCleanedUp,
          dmDelivered,
          scrollHandler, shStickiness, shLastScrollTime, shScrollVelocity,
          shTotalScrollDistance, shScrollStartTime, shIsScrolling, shScrollDirection,
          shPullForces, shPeakVelocity, timeouts, decayFrames, now, wheelEvents,
          shHandled>>

\* the variables of the components other than the one named
nonHashVars ==
    <<springVars, hullVars, kernelVars, physicsVars, workerVars, motionVars, scrollVars>>

nonSpringVars ==
    <<hashVars, hullVars, kernelVars, physicsVars, workerVars, motionVars, scrollVars>>

nonHullVars ==
    <<hashVars, springVars, kernelVars, physicsVars, workerVars, motionVars, scrollVars>>

nonKernelVars ==
    <<hashVars, springVars, hullVars, physicsVars, workerVars, motionVars, scrollVars>>

nonPhysicsVars ==
    <<hashVars, springVars, hullVars, kernelVars, workerVars, motionVars, scrollVars>>

nonWorkerVars ==
    <<hashVars, springVars, hullVars, kernelVars, motionVars, scrollVars>>

\* generateConvexHull has not returned yet
NoHull == <<"none">>

\* no anti-clustering pass has run yet
NoPass == [start |-> <<>>, log |-> <<>>, after |-> <<>>, other |-> <<>>,
           deltaTime |-> 0, rnd |-> 0]

\* the variables of the components other than the simulation and the
\* boundary of its blob
nonBoundaryVars == <<hashVars, hullVars, kernelVars, workerVars, motionVars, scrollVars>>

\* the variables of the components other than the scroll handling
nonScrollVars ==
    <<hashVars, springVars, hullVars, kernelVars, workerVars, motionVars>>

\* the variables of the components other than DeviceMotion
nonMotionVars ==
    <<hashVars, springVars, hullVars, kernelVars, physicsVars, workerVars, scrollVars>>

\* a window without motion API and without an instance of DeviceMotion
MotionIdle ==
    /\ dmWindow = [secure |-> FALSE, api |-> "none", prompt |-> FALSE]
    /\ dmUseMotionAPI = FALSE
    /\ dmIsListening = FALSE
    /\ dmAwait = "idle"
    /\ dmListeners = {}
    /\ dmCleanedUp = "no"
    /\ dmDelivered = <<>>

\* a component without scroll handler, and the ScrollHandler as constructed
ScrollIdle ==
    /\ scrollHandler = FALSE
    /\ shStickiness = 0
    /\ shLastScrollTime = 0
    /\ shScrollVelocity = 0
    /\ shTotalScrollDistance = 0
    /\ shScrollStartTime = 0
    /\ shIsScrolling = FALSE
    /\ shScrollDirection = 0
    /\ shPullForces = <<>>
    /\ shPeakVelocity = 0
    /\ timeouts = <<>>
    /\ decayFrames = 0
    /\ now = 0
    /\ wheelEvents = 0
    /\ shHandled = "none"

\* the worker of a specification that does not use it, and the worker
\* before its first message
WorkerIdle ==
    /\ hasPhysics = FALSE
    /\ isInitialized = FALSE
    /\ microtasks = 0
    /\ handled = "none"
    /\ posted = <<>>
    /\ readyPosted = FALSE

\* the simulation of a specification that does not use it
PhysicsIdle ==
    /\ numBlobs = 0
    /\ lifecycle = "none"
    /\ noop = "none"
    /\ physBlobs = <<>>
    /\ initialized = FALSE
    /\ useSpatialHash = TRUE
    /\ useSpringSystem = TRUE
    /\ gravity = [x |-> 0, y |-> 0]
    /\ scrollStickiness = 0
    /\ mouse = [x |-> 0, y |-> 0]
    /\ physCells = <<>>
    /\ ticks = 0
    /\ pass = NoPass

\* the kernel of a specification that does not use it
KernelIdle ==
    /\ kernArgs = [size |-> 0, sigma |-> 0]
    /\ kernSize = 0
    /\ kernWeights = <<>>
    /\ kernPts = <<>>
    /\ kernStart = <<>>
    /\ kernPhase = "new"
    /\ kernOut = <<>>

\* the hull computation of a specification that does not use it
HullIdle ==
    /\ hullPts = <<>>
    /\ hullOut = NoHull

\* the spring system of a specification that does not use it
SpringIdle ==
    /\ sprPts = <<>>
    /\ sprVel = <<>>
    /\ sprPhase = "new"
    /\ sprStart = <<>>

(***************************************************************************)
(* Generic helpers                                                         *)
(***************************************************************************)
Abs(x) == IF x < 0 THEN -x ELSE x

Max(a, b) == IF a > b THEN a ELSE b

Min(a, b) == IF a < b THEN a ELSE b

\* Math.floor(a / b) for integers a and b > 0
FloorDiv(a, b) == a \div b

\* Math.ceil(a / b) for integers a and b > 0
CeilDiv(a, b) == -((-a) \div b)

\* [lo, lo+1, ..., hi] as a sequence (a for-loop's index values)
Range(lo, hi) == [i \in 1..Max(0, hi - lo + 1) |-> lo + i - 1]

RECURSIVE Concat(_)
\* the concatenation of a sequence of sequences
Concat(ss) == IF ss = <<>> THEN <<>> ELSE Head(ss) \o Concat(Tail(ss))

SeqToSet(s) == {s[i] : i \in 1..Len(s)}

(***************************************************************************)
(* Exact arithmetic.  The square of a fixed-point number does not fit a    *)
(* machine word, so squares and their sums are exact natural numbers       *)
(* written as little-endian digit sequences in base BigBase.               *)
(***************************************************************************)
BigBase == 10^4

BigLen == 3 + 4

BigIdx == 1..BigLen

RECURSIVE BigCarry(_, _, _)
\* carry propagation from digit i on
BigCarry(c, i, carry) ==
    IF i > BigLen THEN c
    ELSE LET t == c[i] + carry
         IN  BigCarry([c EXCEPT ![i] = t % BigBase], i + 1, t \div BigBase)

\* the digit sequence with every digit below BigBase
BigNorm(c) == BigCarry(c, 1, 0)

BigAdd(a, b) == BigNorm([i \in BigIdx |-> a[i] + b[i]])

\* a * m for a small natural number m
BigScale(a, m) == BigNorm([i \in BigIdx |-> a[i] * m])

RECURSIVE BigLessFrom(_, _, _)
\* a < b, comparing from digit i down
BigLessFrom(a, b, i) ==
    IF i = 0 THEN FALSE
    ELSE IF a[i] # b[i] THEN a[i] < b[i]
    ELSE BigLessFrom(a, b, i - 1)

BigLess(a, b) == BigLessFrom(a, b, BigLen)

\* x * x for |x| < 2^31, digits not yet carried
BigSquare(x) ==
    LET m == Abs(x)
        a == m % BigBase
        b == (m \div BigBase) % BigBase
        c == m \div (BigBase * BigBase)
    IN  [k \in BigIdx |-> CASE k = 1 -> a * a
                            [] k = 2 -> 2 * a * b
                            [] k = 3 -> b * b + 2 * a * c
                            [] k = 4 -> 2 * b * c
                            [] k = 5 -> c * c
                            [] OTHER -> 0]

RECURSIVE BigSumSquaresFrom(_, _)
\* the sum of xs[j]^2 for j in 1..i, digits not yet carried
BigSumSquaresFrom(xs, i) ==
    IF i = 0 THEN [k \in BigIdx |-> 0]
    ELSE LET sq == BigSquare(xs[i])
             rest == BigSumSquaresFrom(xs, i - 1)
         IN  [k \in BigIdx |-> sq[k] + rest[k]]

BigSumSquares(xs) == BigNorm(BigSumSquaresFrom(xs, Len(xs)))

(***************************************************************************)
(* SpatialHash (src/src/core/SpatialHash.ts)                               *)
(***************************************************************************)
NumHashBlobs == 2      \* blobs handed to rebuild
MaxQueryRadius == 3    \* query radii 0..MaxQueryRadius

\* blob centres and query points lie on a grid that straddles the origin, so
\* that cell indices of both signs occur
HashCoordX == (-2)..2
HashCoordY == (-1)..0
HashPoint == [x : HashCoordX, y : HashCoordY]
CellSizes == {1, 2}
HashIds == 1..NumHashBlobs
NoBlob == 0            \* "excludeBlob" left undefined

Digits == <<"0", "1", "2", "3", "4", "5", "6", "7", "8", "9">>

RECURSIVE FormatNat(_)
\* the decimal digits of a natural number, as String(n) gives them
FormatNat(n) ==
    IF n < 10 THEN <<Digits[n + 1]>>
    ELSE FormatNat(n \div 10) \o <<Digits[(n % 10) + 1]>>

\* `${n}` for an integer n
FormatInt(n) == IF n < 0 THEN <<"-">> \o FormatNat(-n) ELSE FormatNat(n)

DigitVal(c) == CHOOSE d \in 0..9 : Digits[d + 1] = c

RECURSIVE ParseNat(_, _)
ParseNat(s, acc) ==
    IF s = <<>> THEN acc ELSE ParseNat(Tail(s), 10 * acc + DigitVal(Head(s)))

\* Number(s) for the decimal text of an integer
ParseInt(s) ==
    IF s # <<>> /\ Head(s) = "-" THEN -ParseNat(Tail(s), 0) ELSE ParseNat(s, 0)

\* `${cellX},${cellY}`
CellKey(cellX, cellY) == FormatInt(cellX) \o <<",">> \o FormatInt(cellY)

\* (mutant) the key is built from the column only
HashColumnOnly(size, x, y) == CellKey(FloorDiv(x, size), 0)

\* SpatialHash.hash
Hash(size, x, y) == CellKey(FloorDiv(x, size), FloorDiv(y, size))

\* SpatialHash.parseKey: key.split(',').map(Number)
ParseKey(key) ==
    LET comma == CHOOSE i \in 1..Len(key) : key[i] = ","
    IN  [cellX |-> ParseInt(SubSeq(key, 1, comma - 1)),
         cellY |-> ParseInt(SubSeq(key, comma + 1, Len(key)))]

\* this.cells.get(key): the blobs of the cell, or <<>> when the key is absent
CellGet(cs, key) ==
    IF \E i \in 1..Len(cs) : cs[i].key = key
    THEN cs[CHOOSE i \in 1..Len(cs) : cs[i].key = key].blobs
    ELSE <<>>

\* one iteration of rebuild's loop: push the blob into its cell, creating
\* the cell at the end of the Map when the key is new
CellInsert(cs, key, b) ==
    IF \E i \in 1..Len(cs) : cs[i].key = key
    THEN [i \in 1..Len(cs) |->
            IF cs[i].key = key
            THEN [key |-> key, blobs |-> Append(cs[i].blobs, b)]
            ELSE cs[i]]
    ELSE Append(cs, [key |-> key, blobs |-> <<b>>])

RECURSIVE RebuildFrom(_, _, _, _)
RebuildFrom(size, cs, blobs, i) ==
    IF i > Len(blobs) THEN cs
    ELSE RebuildFrom(size, CellInsert(cs, Hash(size, blobs[i].x, blobs[i].y), i),
                     blobs, i + 1)

\* SpatialHash.rebuild: the Map after clear() and the insertion loop
RebuildCells(size, blobs) == RebuildFrom(size, <<>>, blobs, 1)

DistSquared(ax, ay, bx, by) == (bx - ax) * (bx - ax) + (by - ay) * (by - ay)

\* distSquared < radius * radius, without overflow
DistLess(ax, ay, bx, by, radius) ==
    BigLess(BigSumSquares(<<bx - ax, by - ay>>), BigNorm(BigSquare(radius)))

\* (mutant) only the adjacent cells are scanned, whatever the radius
QueryCellRadiusAdjacent(size, radius) == Min(1, radius)

\* the cell radius query scans: Math.ceil(radius / this.cellSize)
QueryCellRadius(size, radius) == CeilDiv(radius, size)

\* SpatialHash.query
QueryResult(size, cs, blobs, x, y, radius, excludeBlob) ==
    LET cellRadius == QueryCellRadius(size, radius)
        centerCellX == FloorDiv(x, size)
        centerCellY == FloorDiv(y, size)
        offs == Range(-cellRadius, cellRadius)
        InCell(dx, dy) ==
            LET cell == CellGet(cs, CellKey(centerCellX + dx, centerCellY + dy))
            IN  SelectSeq(cell, LAMBDA b :
                    /\ b # excludeBlob
                    /\ DistLess(x, y, blobs[b].x, blobs[b].y, radius))
    IN  Concat([i \in 1..Len(offs) |->
            Concat([j \in 1..Len(offs) |-> InCell(offs[i], offs[j])])])

\* (mutant) the lower-left forward offset is forgotten
NeighborOffsetsNoLowerLeft == <<<<1, 0>>, <<1, 1>>, <<0, 1>>>>

\* (mutant) the forward offsets plus one backward offset
NeighborOffsetsBoth == <<<<1, 0>>, <<1, 1>>, <<0, 1>>, <<-1, 1>>, <<-1, 0>>>>

\* the forward neighbour offsets of getAllPairs
NeighborOffsets == <<<<1, 0>>, <<1, 1>>, <<0, 1>>, <<-1, 1>>>>

\* SpatialHash.getAllPairs: the [b1, b2] pairs pushed, in order (the third
\* tuple member, the distance, is a function of the pair)
AllPairsResult(radius) ==
    LET radiusSquared == radius * radius
        Near(b1, b2) ==
            DistSquared(hblobs[b1].x, hblobs[b1].y, hblobs[b2].x, hblobs[b2].y)
                < radiusSquared
        SameCell(blobs) ==
            Concat([i \in 1..Len(blobs) |->
                Concat([j \in 1..Len(blobs) |->
                    IF j > i /\ Near(blobs[i], blobs[j])
                    THEN <<<<blobs[i], blobs[j]>>>> ELSE <<>>])])
        Cross(blobs, neighborBlobs) ==
            Concat([i \in 1..Len(blobs) |->
                Concat([j \in 1..Len(neighborBlobs) |->
                    IF Near(blobs[i], neighborBlobs[j])
                    THEN <<<<blobs[i], neighborBlobs[j]>>>> ELSE <<>>])])
        OfCell(c) ==
            LET p == ParseKey(cells[c].key)
            IN  SameCell(cells[c].blobs) \o
                Concat([o \in 1..Len(NeighborOffsets) |->
                    Cross(cells[c].blobs,
                          CellGet(cells, CellKey(p.cellX + NeighborOffsets[o][1],
                                                 p.cellY + NeighborOffsets[o][2])))])
    IN  Concat([c \in 1..Len(cells) |-> OfCell(c)])

\* the hash of a specification that does not use it
HashIdle ==
    /\ cellSize = 1
    /\ hblobs = <<>>
    /\ cells = <<>>
    /\ hashBuilt = FALSE
    /\ hashOut = [op |-> "none"]

HashInit ==
    /\ cellSize \in CellSizes
    /\ hblobs \in [HashIds -> HashPoint]
    /\ cells = <<>>
    /\ hashBuilt = FALSE
    /\ hashOut = [op |-> "none"]

\* rebuild(blobs)
Rebuild ==
    /\ hashOut.op = "none"
    /\ hashBuilt = FALSE
    /\ cells' = RebuildCells(cellSize, hblobs)
    /\ hashBuilt' = TRUE
    /\ UNCHANGED <<cellSize, hblobs, hashOut, nonHashVars>>

\* query(x, y, radius, excludeBlob?)
Query ==
    /\ hashOut.op = "none"
    /\ \E p \in HashPoint, radius \in 0..MaxQueryRadius,
          excludeBlob \in HashIds \cup {NoBlob} :
            hashOut' = [op |-> "query", x |-> p.x, y |-> p.y, radius |-> radius,
                        exclude |-> excludeBlob,
                        result |-> QueryResult(cellSize, cells, hblobs, p.x, p.y,
                                              radius, excludeBlob)]
    /\ UNCHANGED <<cellSize, hblobs, cells, hashBuilt, nonHashVars>>

\* getAllPairs(interactionRadius)
GetAllPairs ==
    /\ hashOut.op = "none"
    /\ \E radius \in 0..MaxQueryRadius :
            hashOut' = [op |-> "pairs", radius |-> radius,
                        result |-> AllPairsResult(radius)]
    /\ UNCHANGED <<cellSize, hblobs, cells, hashBuilt, nonHashVars>>

\* the caller drops the returned array
HashReturn ==
    /\ hashOut.op # "none"
    /\ hashOut' = [op |-> "none"]
    /\ UNCHANGED <<cellSize, hblobs, cells, hashBuilt, nonHashVars>>

NextHash == Rebuild \/ Query \/ GetAllPairs \/ HashReturn

InitHash == HashInit /\ SpringIdle /\ HullIdle /\ KernelIdle /\ PhysicsIdle /\ WorkerIdle /\ MotionIdle /\ ScrollIdle

SpecHash == InitHash /\ [][NextHash]_vars

\* the blobs a brute-force scan finds within the radius of (x, y)
BruteForce(x, y, radius, excludeBlob) ==
    {b \in HashIds :
        /\ b # excludeBlob
        /\ DistSquared(x, y, hblobs[b].x, hblobs[b].y) < radius * radius}

\* C1: after rebuild(blobs), query(x, y, radius, exclude) returns exactly the
\* indexed blobs other than the excluded one whose squared centre distance to
\* (x, y) is below radius squared: none is missing and no other is returned.
C1_QueryIsBruteForce ==
    (hashBuilt /\ hashOut.op = "query") =>
        SeqToSet(hashOut.result)
            = BruteForce(hashOut.x, hashOut.y, hashOut.radius, hashOut.exclude)

\* a query whose radius spans more than one cell, that excludes a blob lying
\* within the radius and returns another blob from a non-adjacent cell
C1_Witness ==
    /\ hashBuilt /\ hashOut.op = "query"
    /\ hashOut.radius > cellSize
    /\ hashOut.exclude # NoBlob
    /\ DistSquared(hashOut.x, hashOut.y, hblobs[hashOut.exclude].x,
                   hblobs[hashOut.exclude].y) < hashOut.radius * hashOut.radius
    /\ \E b \in SeqToSet(hashOut.result) :
            Abs(FloorDiv(hblobs[b].x, cellSize) - FloorDiv(hashOut.x, cellSize)) > 1

\* the unordered pairs of distinct blobs closer than the radius
PairsWithin(radius) ==
    {pr \in HashIds \X HashIds :
        /\ pr[1] < pr[2]
        /\ DistSquared(hblobs[pr[1]].x, hblobs[pr[1]].y,
                       hblobs[pr[2]].x, hblobs[pr[2]].y) < radius * radius}

HasPair(result, pr) ==
    \E i \in 1..Len(result) :
        result[i] = pr \/ result[i] = <<pr[2], pr[1]>>

\* C5: after rebuild(blobs), getAllPairs(radius) contains every unordered pair
\* of distinct blobs whose centre distance is below radius, for every radius
\* and every cell size.
C5_AllPairsComplete ==
    (hashBuilt /\ hashOut.op = "pairs") =>
        \A pr \in PairsWithin(hashOut.radius) : HasPair(hashOut.result, pr)

\* C5 (amended): after rebuild(blobs), getAllPairs(radius) contains every
\* unordered pair of distinct blobs whose centre distance is below radius,
\* for every radius that is not larger than the cell size.
C5_AllPairsCompleteWithinCell ==
    (hashBuilt /\ hashOut.op = "pairs" /\ hashOut.radius <= cellSize) =>
        \A pr \in PairsWithin(hashOut.radius) : HasPair(hashOut.result, pr)

\* getAllPairs, with a radius within the cell size, returned a pair that
\* only the lower-left offset reaches
C5_Witness ==
    /\ hashBuilt /\ hashOut.op = "pairs" /\ hashOut.radius <= cellSize
    /\ \E i \in 1..Len(hashOut.result) :
        LET b1 == hashOut.result[i][1]
            b2 == hashOut.result[i][2]
        IN  /\ FloorDiv(hblobs[b2].x, cellSize) = FloorDiv(hblobs[b1].x, cellSize) - 1
            /\ FloorDiv(hblobs[b2].y, cellSize) = FloorDiv(hblobs[b1].y, cellSize) + 1

\* C6: the list getAllPairs returns holds no pair of a blob with itself and
\* no unordered pair twice (in either order).
C6_PairsUnique ==
    (hashOut.op = "pairs") =>
        /\ \A i \in 1..Len(hashOut.result) :
                hashOut.result[i][1] # hashOut.result[i][2]
        /\ \A i, j \in 1..Len(hashOut.result) :
                (i # j) =>
                    /\ hashOut.result[i] # hashOut.result[j]
                    /\ hashOut.result[i]
                            # <<hashOut.result[j][2], hashOut.result[j][1]>>

\* getAllPairs returned a pair whose blobs lie in horizontally adjacent
\* cells (the pair a backward offset would report a second time)
C6_Witness ==
    /\ hashBuilt /\ hashOut.op = "pairs"
    /\ \E i \in 1..Len(hashOut.result) :
        LET b1 == hashOut.result[i][1]
            b2 == hashOut.result[i][2]
        IN  /\ FloorDiv(hblobs[b2].x, cellSize) = FloorDiv(hblobs[b1].x, cellSize) + 1
            /\ FloorDiv(hblobs[b2].y, cellSize) = FloorDiv(hblobs[b1].y, cellSize)

(***************************************************************************)
(* SpringSystem (src/core/SpringSystem.ts)                                 *)
(*                                                                         *)
(* Radii, velocities and forces are fixed-point numbers with FP units per  *)
(* 1.0.  The coefficients of SpringConfig and deltaTime are in thousandths *)
(* (0.08 is 80); a product with a coefficient is rounded to the nearest    *)
(* unit, as a double product is rounded to the nearest double.             *)
(***************************************************************************)
FP == 10^7

\* DEFAULT_SPRING_CONFIG, in thousandths
springConstant == 80

dampingCoeff == 120

couplingStrength == 50

surfaceTension == 30

pressure == 1000

maxDeformation == 300

maxVelocity == 2000

\* x * (m / 1000), rounded to the nearest unit
MulMilli(x, m) == (x \div 1000) * m + (((x % 1000) * m + 500) \div 1000)

\* x / 2, rounded to the nearest unit
Half(x) == (x + 1) \div 2

\* maxVelocity in units
MaxVel == MulMilli(FP, maxVelocity)

\* F_spring = k * (radius - baseRadius), the spring pushing away from rest
SpringForceReversed(displacement) == MulMilli(displacement, springConstant)

\* F_spring = -k * (radius - baseRadius)
SpringForce(displacement) == -MulMilli(displacement, springConstant)

\* F_damping = c * v, the sign of the damping reversed
DampingForceReversed(v) == MulMilli(v, dampingCoeff)

\* F_damping = -c * v
DampingForce(v) == -MulMilli(v, dampingCoeff)

\* the velocity left as it is
ClampVelocityOff(v) == v

\* Math.max(-maxVelocity, Math.min(maxVelocity, v))
ClampVelocity(v) == Max(-MaxVel, Min(MaxVel, v))

\* baseRadius * (1 - maxDeformation)
MinRadius(baseRadius) == MulMilli(baseRadius, 1000 - maxDeformation)

\* baseRadius * (1 + maxDeformation)
MaxRadius(baseRadius) == MulMilli(baseRadius, 1000 + maxDeformation)

\* updateControlPoint: the new radius and radial velocity of one point.
\* (The intermediate values are bound by set constructors so that each is
\* computed once.)
UpdateControlPoint(radius, baseRadius, radialVelocity, leftRadius, rightRadius, externalForce, dt) ==
    LET displacement == radius - baseRadius
        F_spring == SpringForce(displacement)
        avgNeighborRadius == Half(leftRadius + rightRadius)
        F_tension == -MulMilli(radius - avgNeighborRadius, surfaceTension)
        F_pressure == MulMilli(MulMilli(baseRadius, pressure - 1000), 10)
        F_coupling == Half(MulMilli((leftRadius - radius) + (rightRadius - radius),
                                    couplingStrength))
        F_damping == DampingForce(radialVelocity)
        F_total == F_spring + F_tension + F_pressure + F_coupling + F_damping
                   + externalForce
        minRadius == MinRadius(baseRadius)
        maxRadius == MaxRadius(baseRadius)
        \* velocity.radialVelocity += F_total * deltaTime
        Accelerate(F) == radialVelocity + MulMilli(F, dt)
        \* point.radius += velocity.radialVelocity * deltaTime, then the clamp
        Integrate(v) ==
            [radius |-> Max(minRadius, Min(maxRadius, radius + MulMilli(v, dt))),
             radialVelocity |-> v]
        \* if (point.radius === minRadius || point.radius === maxRadius)
        \*     velocity.radialVelocity *= 0.3
        Bounce(p) ==
            IF p.radius = minRadius \/ p.radius = maxRadius
            THEN [p EXCEPT !.radialVelocity = MulMilli(p.radialVelocity, 300)]
            ELSE p
    IN  CHOOSE res \in
            { Bounce(p) : p \in
                { Integrate(v1) : v1 \in
                    { ClampVelocity(v0) : v0 \in
                        { Accelerate(F) : F \in {F_total} } } } } : TRUE

RECURSIVE UpdateFrom(_, _, _, _, _)
\* the for-loop of updateAllControlPoints from index i on: each point is
\* updated in place, so point i + 1 sees the new radius of point i
UpdateFrom(pts, vel, i, externalForces, dt) ==
    IF i > Len(pts) THEN [pts |-> pts, vel |-> vel]
    ELSE LET n == Len(pts)
             left == pts[((i - 2 + n) % n) + 1]
             right == pts[(i % n) + 1]
             u == UpdateControlPoint(pts[i].radius, pts[i].baseRadius, vel[i],
                                     left.radius, right.radius,
                                     externalForces[i], dt)
         IN  \* (u is bound by a set constructor so that it is computed once)
             CHOOSE res \in { UpdateFrom([pts EXCEPT ![i].radius = p.radius],
                                         [vel EXCEPT ![i] = p.radialVelocity],
                                         i + 1, externalForces, dt) : p \in {u} } : TRUE

\* (mutant) updateAllControlPoints without its guard on the number of points
UpdateAllControlPointsUnguarded(pts, vel, externalForces, dt) ==
    UpdateFrom(pts, vel, 1, externalForces, dt)

\* updateAllControlPoints
UpdateAllControlPoints(pts, vel, externalForces, dt) ==
    IF Len(pts) < 3 THEN [pts |-> pts, vel |-> vel]
    ELSE UpdateFrom(pts, vel, 1, externalForces, dt)

(***************************************************************************)
(* Energies, as exact natural numbers in base BigBase.  An energy E of    *)
(* the source is the number 2000 * FP * FP * E here.                       *)
(***************************************************************************)
\* getKineticEnergy: the sum of 0.5 * v^2
KineticEnergy(vel) == BigScale(BigSumSquares(vel), 1000)

\* getPotentialEnergy: the sum of 0.5 * k * (radius - baseRadius)^2
PotentialEnergy(pts) ==
    BigScale(BigSumSquares([i \in 1..Len(pts) |-> pts[i].radius - pts[i].baseRadius]),
             springConstant)

TotalEnergy(pts, vel) == BigAdd(KineticEnergy(vel), PotentialEnergy(pts))

\* the default threshold of isAtRest, 0.001
RestThreshold == BigScale(BigNorm(BigSquare(FP)), 2)

\* isAtRest
IsAtRest(pts, vel) == BigLess(TotalEnergy(pts, vel), RestThreshold)

(***************************************************************************)
(* One updateControlPoint call on arbitrary arguments.  sprPts holds the   *)
(* left neighbour, the point and the right neighbour.                      *)
(***************************************************************************)
\* radii of the point, in and out of the deformation band of its baseRadius
PointRadii == {10 * FP, 14 * FP, 20 * FP, 26 * FP, 100 * FP}

PointBaseRadii == {20 * FP, 24 * FP + (FP \div 2)}

NeighborRadii == {14 * FP, 20 * FP, 26 * FP}

PointVelocities == {-10 * FP, -2 * FP, 0, FP \div 2, 2 * FP, 10 * FP}

PointForces == {-50 * FP, -(FP \div 2), 0, FP \div 2, 50 * FP}

\* deltaTime in thousandths of a second
PointDts == {1, 16, 50, 1000}

PointInit ==
    /\ \E r \in PointRadii, b \in PointBaseRadii, l \in NeighborRadii,
          rt \in NeighborRadii :
          sprPts = << [radius |-> l, baseRadius |-> 20 * FP],
                      [radius |-> r, baseRadius |-> b],
                      [radius |-> rt, baseRadius |-> 20 * FP] >>
    /\ \E v \in PointVelocities : sprVel = <<0, v, 0>>
    /\ sprPhase = "new"
    /\ sprStart = [pts |-> sprPts, vel |-> sprVel]

\* updateControlPoint(point, velocity, leftNeighbor, rightNeighbor,
\*                    externalForce, deltaTime) on the middle point
UpdatePoint ==
    /\ sprPhase = "new"
    /\ \E externalForce \in PointForces, dt \in PointDts :
          LET u == UpdateControlPoint(sprPts[2].radius, sprPts[2].baseRadius,
                                      sprVel[2], sprPts[1].radius,
                                      sprPts[3].radius, externalForce, dt)
          IN  /\ sprPts' = [sprPts EXCEPT ![2].radius = u.radius]
              /\ sprVel' = [sprVel EXCEPT ![2] = u.radialVelocity]
    /\ sprPhase' = "updated"
    /\ UNCHANGED <<sprStart, nonSpringVars>>

NextPoint == UpdatePoint

InitPoint == HashIdle /\ PointInit /\ HullIdle /\ KernelIdle /\ PhysicsIdle /\ WorkerIdle /\ MotionIdle /\ ScrollIdle

SpecPoint == InitPoint /\ [][NextPoint]_vars

(***************************************************************************)
(* A ring of NumPoints control points stepped by updateAllControlPoints    *)
(* with no external force and the frame time of 16 ms.                     *)
(***************************************************************************)
NumPoints == 3

\* deltaTime of a frame, in thousandths of a second
FrameDt == 16

RingIdx == 1..NumPoints

\* the baseRadius of each point: all equal, or the first one larger
BasePatterns ==
    { [i \in RingIdx |-> IF i = 1 THEN b ELSE 20 * FP] : b \in {20 * FP, 24 * FP} }

Displacements == {-FP, FP}

UniformSeq(xs) == \A i \in 1..Len(xs) : xs[i] = xs[1]

\* the initial radius - baseRadius of each point: one value for the first
\* point and one for the others (the same for all under unequal baseRadius)
DisplacementPatterns(base) ==
    { [i \in RingIdx |-> IF i = 1 THEN d1 ELSE d2] :
          d1 \in Displacements,
          d2 \in IF UniformSeq(base) THEN Displacements ELSE {FP} }

\* the initial radial velocity of every point
StartVelocities(base) == IF UniformSeq(base) THEN {0, FP \div 2} ELSE {0}

NoForces == [i \in RingIdx |-> 0]

RingInit ==
    /\ \E base \in BasePatterns :
          /\ \E ds \in DisplacementPatterns(base) :
                sprPts = [i \in RingIdx |->
                             [radius |-> base[i] + ds[i], baseRadius |-> base[i]]]
          /\ \E v \in StartVelocities(base) : sprVel = [i \in RingIdx |-> v]
    /\ sprPhase = "new"
    /\ sprStart = [pts |-> sprPts, vel |-> sprVel]

\* updateAllControlPoints(points, velocities, 0, 0.016)
Step ==
    /\ \E u \in {UpdateAllControlPoints(sprPts, sprVel, NoForces, FrameDt)} :
          /\ sprPts' = u.pts
          /\ sprVel' = u.vel
    /\ sprPhase' = "updated"
    /\ UNCHANGED <<sprStart, nonSpringVars>>

NextRing == Step

InitRing == HashIdle /\ RingInit /\ HullIdle /\ KernelIdle /\ PhysicsIdle /\ WorkerIdle /\ MotionIdle /\ ScrollIdle

SpecSpring == InitRing /\ [][NextRing]_vars

\* the caller keeps stepping
SpecSpringFair == SpecSpring /\ WF_vars(NextRing)

(***************************************************************************)
(* Properties of the spring system                                         *)
(***************************************************************************)
\* C3: after an updateControlPoint call, whatever the prior radius, velocity,
\* neighbour radii, external force and dt, the radius of the point lies in
\* [baseRadius * (1 - maxDeformation), baseRadius * (1 + maxDeformation)] and
\* the absolute value of its radialVelocity is at most maxVelocity.
C3_RadiusAndVelocityBounded ==
    sprPhase = "updated" =>
        /\ MinRadius(sprPts[2].baseRadius) <= sprPts[2].radius
        /\ sprPts[2].radius <= MaxRadius(sprPts[2].baseRadius)
        /\ Abs(sprVel[2]) <= MaxVel

\* a point that started above its band and faster than maxVelocity has been
\* updated and sits on the upper limit of the band
C3_Witness ==
    /\ sprPhase = "updated"
    /\ Len(sprPts) = 3
    /\ sprStart.pts[2].radius > MaxRadius(sprPts[2].baseRadius)
    /\ Abs(sprStart.vel[2]) > MaxVel
    /\ sprPts[2].radius = MaxRadius(sprPts[2].baseRadius)
    /\ sprVel[2] # 0

\* the caller started from a uniform perturbation: every point has the same
\* baseRadius, the same radius and the same radial velocity
UniformStart ==
    /\ \A i \in 1..Len(sprStart.pts) : sprStart.pts[i] = sprStart.pts[1]
    /\ UniformSeq(sprStart.vel)

\* every point has the same baseRadius
UniformBase == \A i \in 1..Len(sprPts) : sprPts[i].baseRadius = sprPts[1].baseRadius

\* C7 as stated: with dampingCoeff > 0 and zero external force, every
\* updateAllControlPoints step taken from a state whose total energy is not
\* below the rest threshold produces a strictly smaller total energy.
C7_EveryStepDecreasesEnergy ==
    [][~IsAtRest(sprPts, sprVel) =>
          BigLess(TotalEnergy(sprPts', sprVel'), TotalEnergy(sprPts, sprVel))]_vars

\* C7 amended: the same, for the steps of a run that started from a uniform
\* perturbation (default configuration, deltaTime 0.016).
C7_UniformStepDecreasesEnergy ==
    [][(UniformStart /\ ~IsAtRest(sprPts, sprVel)) =>
          BigLess(TotalEnergy(sprPts', sprVel'), TotalEnergy(sprPts, sprVel))]_vars

\* a run from a uniform perturbation has stepped, is not yet at rest and has
\* less energy than it started with
C7_Witness ==
    /\ sprPhase = "updated"
    /\ Len(sprPts) = NumPoints
    /\ UniformStart
    /\ ~IsAtRest(sprPts, sprVel)
    /\ BigLess(TotalEnergy(sprPts, sprVel), TotalEnergy(sprStart.pts, sprStart.vel))

\* isAtRest(points, velocities) in the current state (no points: no energy)
AtRest == sprPts = <<>> \/ IsAtRest(sprPts, sprVel)

MaxHullPoints == 4

HullCoord == 0..2

HullPoint == [x : HullCoord, y : HullCoord]

\* (p2 - p1) x (p3 - p1)
Cross(p1, p2, p3) == (p2.x - p1.x) * (p3.y - p1.y) - (p2.y - p1.y) * (p3.x - p1.x)

\* isLeftTurn
IsLeftTurn(p1, p2, p3) == Cross(p1, p2, p3) > 0

RECURSIVE StartIndexFrom(_, _, _)
\* the loop that finds the bottommost, then leftmost point, from index i on
StartIndexFrom(points, i, startIndex) ==
    IF i > Len(points) THEN startIndex
    ELSE LET point == points[i]
             startPoint == points[startIndex]
         IN  IF point.y < startPoint.y
                \/ (point.y = startPoint.y /\ point.x < startPoint.x)
             THEN StartIndexFrom(points, i + 1, i)
             ELSE StartIndexFrom(points, i + 1, startIndex)

StartIndex(points) == StartIndexFrom(points, 1, 1)

RECURSIVE NextIndexFrom(_, _, _, _)
\* the inner for-loop of the wrapping step, from index i on
NextIndexFrom(points, currentIndex, i, nextIndex) ==
    IF i > Len(points) THEN nextIndex
    ELSE IF nextIndex = currentIndex
            \/ IsLeftTurn(points[currentIndex], points[nextIndex], points[i])
         THEN NextIndexFrom(points, currentIndex, i + 1, i)
         ELSE NextIndexFrom(points, currentIndex, i + 1, nextIndex)

RECURSIVE WrapFrom(_, _, _, _, _)
\* the do-while loop of generateConvexHull
WrapFrom(points, startIndex, currentIndex, hull, iterations) ==
    LET hull1 == Append(hull, points[currentIndex])
        nextIndex == NextIndexFrom(points, currentIndex, 1, 1)
        maxIterations == Len(points) * 2
    IN  IF nextIndex # startIndex /\ Len(hull1) < Len(points)
           /\ iterations + 1 < maxIterations
        THEN WrapFrom(points, startIndex, nextIndex, hull1, iterations + 1)
        ELSE hull1

\* generateConvexHull
GenerateConvexHull(points) ==
    IF Len(points) < 3 THEN points
    ELSE WrapFrom(points, StartIndex(points), StartIndex(points), <<>>, 0)

HullInit ==
    /\ \E n \in 3..MaxHullPoints : hullPts \in [1..n -> HullPoint]
    /\ hullOut = NoHull

\* generateConvexHull(points)
ConvexHull ==
    /\ hullOut = NoHull
    /\ hullOut' = GenerateConvexHull(hullPts)
    /\ UNCHANGED <<hullPts, nonHullVars>>

NextHull == ConvexHull

InitHull == HashIdle /\ SpringIdle /\ HullInit /\ KernelIdle /\ PhysicsIdle /\ WorkerIdle /\ MotionIdle /\ ScrollIdle

SpecHull == InitHull /\ [][NextHull]_vars

\* the edges h[i] -> h[i+1] of the closed polygon, all turning one way round
\* every point of ps (s = 1: counter-clockwise, s = -1: clockwise)
AllOnSide(h, ps, s) ==
    \A i \in 1..Len(h) : \A j \in 1..Len(ps) :
        s * Cross(h[i], h[(i % Len(h)) + 1], ps[j]) >= 0

\* every point of ps is within the extent of the vertices of h
InExtent(h, ps) ==
    \A j \in 1..Len(ps) :
        /\ \E i \in 1..Len(h) : h[i].x <= ps[j].x
        /\ \E i \in 1..Len(h) : h[i].x >= ps[j].x
        /\ \E i \in 1..Len(h) : h[i].y <= ps[j].y
        /\ \E i \in 1..Len(h) : h[i].y >= ps[j].y

\* C4: for every set of 3 or more points, collinear and coincident ones
\* included, generateConvexHull returns input points that are the vertices of
\* a convex polygon in one rotational order, and every input point lies on or
\* inside that polygon.
C4_HullConvexAndContainsInputs ==
    hullOut # NoHull =>
        /\ \A i \in 1..Len(hullOut) : \E j \in 1..Len(hullPts) : hullOut[i] = hullPts[j]
        /\ AllOnSide(hullOut, hullOut, 1) \/ AllOnSide(hullOut, hullOut, -1)
        /\ AllOnSide(hullOut, hullPts, 1) \/ AllOnSide(hullOut, hullPts, -1)
        /\ InExtent(hullOut, hullPts)

(***************************************************************************)
(* GaussianKernel (src/core/GaussianKernel.ts)                             *)
(*                                                                         *)
(* Weights are fixed-point numbers with WeightOne units per 1.0 and radii  *)
(* fixed-point numbers with RadiusOne units per 1.0; NaN is a value of its *)
(* own.  The rounding of a Float32Array store (relative error 6e-8) is     *)
(* finer than a unit and is not modelled.                                  *)
(***************************************************************************)
WeightOne == 10^6

RadiusOne == 10^4

\* the IEEE value NaN (also what arithmetic makes of undefined)
NaN == -(2^30)

\* a + b of two numbers
NumAdd(a, b) == IF a = NaN \/ b = NaN THEN NaN ELSE a + b

\* the remainder operator % of JavaScript: the sign of the dividend
JsRem(a, n) == IF a >= 0 THEN a % n ELSE -((-a) % n)

\* sigma, in thousandths
Sigmas == {500, 1000, 1200, 3000}

\* Math.exp(-(x * x) / twoSigmaSquared) in units of 1 / WeightOne, by x * x
ExpTable(sigma, xx) ==
    CASE sigma = 500  -> (0 :> 1000000 @@ 1 :> 135335 @@ 4 :> 335 @@ 9 :> 0 @@ 16 :> 0)[xx]
      [] sigma = 1000 -> (0 :> 1000000 @@ 1 :> 606531 @@ 4 :> 135335 @@ 9 :> 11109
                          @@ 16 :> 335)[xx]
      [] sigma = 1200 -> (0 :> 1000000 @@ 1 :> 706648 @@ 4 :> 249352 @@ 9 :> 43937
                          @@ 16 :> 3866)[xx]
      [] sigma = 3000 -> (0 :> 1000000 @@ 1 :> 945959 @@ 4 :> 800737 @@ 9 :> 606531
                          @@ 16 :> 411112)[xx]

\* (mutant) the requested size kept as it is
OddSizeKept(size) == size

\* this.size = size % 2 === 0 ? size + 1 : size
OddSize(size) == IF size % 2 = 0 THEN size + 1 ELSE size

\* this.halfSize = Math.floor(this.size / 2)
HalfSize(size) == FloorDiv(size, 2)

RECURSIVE SeqSum(_, _)
\* xs[1] + ... + xs[i]
SeqSum(xs, i) == IF i = 0 THEN 0 ELSE NumAdd(xs[i], SeqSum(xs, i - 1))

RECURSIVE DivDigits(_, _, _, _)
\* the quotient r / d (r < d) to `steps` base-100 digits, then rounded
DivDigits(r, d, steps, acc) ==
    IF steps = 0 THEN acc + (IF 2 * r >= d THEN 1 ELSE 0)
    ELSE DivDigits((r * 100) % d, d, steps - 1, acc * 100 + ((r * 100) \div d))

\* weight / sum, in units of 1 / WeightOne
Normalize(weight, sum) ==
    (weight \div sum) * WeightOne + DivDigits(weight % sum, sum, 3, 0)

\* computeWeights: the weights of a kernel of odd size `size`
ComputeWeights(size, sigma) ==
    LET raw == [i \in 1..size |->
                   LET x == (i - 1) - HalfSize(size) IN ExpTable(sigma, x * x)]
        sum == SeqSum(raw, size)
    IN  [i \in 1..size |-> Normalize(raw[i], sum)]

\* radius * weight, rounded to the nearest unit
MulWeight(radius, weight) ==
    IF radius = NaN THEN NaN
    ELSE LET r1 == radius \div 10^4
             r0 == radius % 10^4
             w1 == weight \div 1000
             w0 == weight % 1000
         IN  r1 * w1 * 10 + ((r1 * w0) \div 100) + ((r0 * w1) \div 1000)
               + ((((r1 * w0) % 100) * 10^4 + ((r0 * w1) % 1000) * 1000 + r0 * w0
                   + (WeightOne \div 2)) \div WeightOne)

\* idx = (i + j - this.halfSize + n) % n
CircularIndex(i, j, half, n) == JsRem(i + j - half + n, n)

\* originalRadii[idx]: a typed array reads undefined outside 0..n-1
ReadRadius(originalRadii, idx) ==
    IF idx \in 0..(Len(originalRadii) - 1) THEN originalRadii[idx + 1] ELSE NaN

RECURSIVE SmoothedFrom(_, _, _, _, _)
\* the inner loop of convolve for point i, from tap j on
SmoothedFrom(originalRadii, weights, i, j, smoothedRadius) ==
    IF j >= Len(weights) THEN smoothedRadius
    ELSE LET idx == CircularIndex(i, j, HalfSize(Len(weights)), Len(originalRadii))
         IN  SmoothedFrom(originalRadii, weights, i, j + 1,
                          NumAdd(smoothedRadius,
                                 MulWeight(ReadRadius(originalRadii, idx), weights[j + 1])))

\* convolve: the radii it leaves in the points
ConvolveRadii(radii, weights) ==
    IF Len(radii) < 3 THEN radii
    ELSE [i \in 1..Len(radii) |-> SmoothedFrom(radii, weights, i - 1, 0, 0)]

MaxKernelPoints == 4

\* the size argument of the constructor
KernelSizes == {3, 4, 5, 7, 9}

\* the radii of the points, in units
KernelRadii == {5 * RadiusOne, 17 * RadiusOne, 20 * RadiusOne + 1234, 50 * RadiusOne}

\* new GaussianKernel(size, sigma), and the points the caller holds
KernelInit ==
    /\ \E size \in KernelSizes, sigma \in Sigmas :
          /\ kernArgs = [size |-> size, sigma |-> sigma]
          /\ kernSize = OddSize(size)
          /\ kernWeights = ComputeWeights(OddSize(size), sigma)
    /\ \E n \in 2..MaxKernelPoints : kernPts \in [1..n -> KernelRadii]
    /\ kernStart = kernPts
    /\ kernPhase = "new"
    /\ kernOut = <<>>

\* convolve(points)
Convolve ==
    /\ kernPhase = "new"
    /\ kernPts' = ConvolveRadii(kernPts, kernWeights)
    /\ kernPhase' = "convolved"
    /\ UNCHANGED <<kernArgs, kernSize, kernWeights, kernStart, kernOut, nonKernelVars>>

RECURSIVE ArraySumFrom(_, _, _, _, _, _)
\* the inner loop of convolveArray for entry i, from tap j on
ArraySumFrom(radii, count, weights, i, j, sum) ==
    IF j >= Len(weights) THEN sum
    ELSE LET idx == CircularIndex(i, j, HalfSize(Len(weights)), count)
         IN  ArraySumFrom(radii, count, weights, i, j + 1,
                          NumAdd(sum, MulWeight(ReadRadius(radii, idx), weights[j + 1])))

\* the buffer convolveArray returns
ConvolveArrayResult(radii, count, weights) ==
    [i \in 1..count |-> ArraySumFrom(radii, count, weights, i - 1, 0, 0)]

\* convolveArray(radii, count) on the buffer of the points' radii
ConvolveArray ==
    /\ kernPhase = "new"
    /\ \E count \in 1..Len(kernPts) :
          kernOut' = ConvolveArrayResult(kernPts, count, kernWeights)
    /\ kernPhase' = "array"
    /\ UNCHANGED <<kernArgs, kernSize, kernWeights, kernPts, kernStart, nonKernelVars>>

NextKernel == Convolve \/ ConvolveArray

InitKernel == HashIdle /\ SpringIdle /\ HullIdle /\ KernelInit /\ PhysicsIdle /\ WorkerIdle /\ MotionIdle /\ ScrollIdle

SpecKernel == InitKernel /\ [][NextKernel]_vars

\* Math.abs(meanAfter - meanBefore) < 0.01 for the radii before and after
MeanWithinTolerance(before, after) ==
    LET sumBefore == SeqSum(before, Len(before))
        sumAfter == SeqSum(after, Len(after))
    IN  /\ sumBefore # NaN
        /\ sumAfter # NaN
        /\ 100 * Abs(sumAfter - sumBefore) < Len(before) * RadiusOne

\* C10: for every radii sequence of at least 3 points and every kernel,
\* convolve preserves the mean of the radii within 0.01.
C10_ConvolvePreservesMean ==
    (kernPhase = "convolved" /\ Len(kernStart) >= 3) =>
        MeanWithinTolerance(kernStart, kernPts)

\* the same for kernels whose half size does not exceed the number of points
C10_InRangePreservesMean ==
    (kernPhase = "convolved" /\ Len(kernStart) >= 3
        /\ HalfSize(kernSize) <= Len(kernStart)) =>
        MeanWithinTolerance(kernStart, kernPts)

\* computeVariance of radii without NaN: the population variance of n radii
\* times n^3, as an exact natural number (diff = radius - mean is
\* (n * radius - sum) / n)
ComputeVariance(radii) ==
    LET n == Len(radii)
        sum == SeqSum(radii, n)
    IN  BigSumSquares([i \in 1..n |-> n * radii[i] - sum])

\* varianceAfter <= varianceBefore * 1.01 for the radii before and after; a
\* NaN among the radii makes the variance NaN and the comparison false
VarianceNotGreater(before, after) ==
    /\ SeqSum(before, Len(before)) # NaN
    /\ SeqSum(after, Len(after)) # NaN
    /\ ~BigLess(BigScale(ComputeVariance(before), 101),
                BigScale(ComputeVariance(after), 100))

\* C11: for every radii sequence of at least 3 points and every kernel, the
\* population variance of the radii after convolve is at most 1.01 times the
\* variance before.
C11_ConvolveReducesVariance ==
    (kernPhase = "convolved" /\ Len(kernStart) >= 3) =>
        VarianceNotGreater(kernStart, kernPts)

\* the same for kernels whose half size does not exceed the number of points
C11_InRangeReducesVariance ==
    (kernPhase = "convolved" /\ Len(kernStart) >= 3
        /\ HalfSize(kernSize) <= Len(kernStart)) =>
        VarianceNotGreater(kernStart, kernPts)

\* C12: the effective size of a kernel is the smallest odd number not below
\* the requested size, its weights sum to 1 within 1e-4, and the weights are
\* symmetric about the centre tap: weight[i] = weight[size - 1 - i].
C12_KernelOddNormalizedSymmetric ==
    kernArgs.size > 0 =>
        /\ kernSize % 2 = 1
        /\ kernSize >= kernArgs.size
        /\ kernSize - 2 < kernArgs.size
        /\ Len(kernWeights) = kernSize
        /\ 10^4 * Abs(SeqSum(kernWeights, kernSize) - WeightOne) < WeightOne
        /\ \A i \in 1..kernSize : kernWeights[i] = kernWeights[kernSize + 1 - i]

\* a kernel built from an even size, with unequal weights
C12_Witness ==
    /\ kernArgs.size > 0
    /\ kernArgs.size % 2 = 0
    /\ kernSize = kernArgs.size + 1
    /\ kernWeights[1] < kernWeights[2]

\* C18: convolveArray(radii, count) returns a new buffer of length count
\* holding exactly the radii convolve leaves in the corresponding points,
\* and does not modify its input buffer
C18_ConvolveArrayMatchesConvolve ==
    kernPhase = "array" =>
        /\ kernOut = ConvolveRadii(SubSeq(kernStart, 1, Len(kernOut)), kernWeights)
        /\ kernPts = kernStart

\* the same for the counts from 3 on
C18_MatchesFromThreePoints ==
    (kernPhase = "array" /\ Len(kernOut) >= 3) => C18_ConvolveArrayMatchesConvolve

(***************************************************************************)
(* Boundaries of fewer than 3 points, handed to convolve and to            *)
(* updateAllControlPoints.                                                 *)
(***************************************************************************)
ShortLengths == {1, 2}

\* a kernel and the radii of a short boundary
ShortKernelInit ==
    /\ \E size \in KernelSizes, sigma \in Sigmas :
          /\ kernArgs = [size |-> size, sigma |-> sigma]
          /\ kernSize = OddSize(size)
          /\ kernWeights = ComputeWeights(OddSize(size), sigma)
    /\ \E n \in ShortLengths : kernPts \in [1..n -> KernelRadii]
    /\ kernStart = kernPts
    /\ kernPhase = "new"
    /\ kernOut = <<>>

\* the control points and velocities of a short boundary, displaced and moving
ShortRingInit ==
    /\ \E n \in ShortLengths :
          /\ \E d \in Displacements :
                sprPts = [i \in 1..n |-> [radius |-> 20 * FP + d, baseRadius |-> 20 * FP]]
          /\ \E v \in {0, FP \div 2} : sprVel = [i \in 1..n |-> v]
    /\ sprPhase = "new"
    /\ sprStart = [pts |-> sprPts, vel |-> sprVel]

NextShort == Convolve \/ Step

InitShort == HashIdle /\ ShortRingInit /\ HullIdle /\ ShortKernelInit /\ PhysicsIdle /\ WorkerIdle /\ MotionIdle /\ ScrollIdle

SpecShort == InitShort /\ [][NextShort]_vars

\* C19: for a boundary of fewer than 3 points, convolve and
\* updateAllControlPoints return with every radius and velocity as it was
C19_ShortBoundaryUntouched ==
    /\ (kernPhase = "convolved" /\ Len(kernStart) < 3) => kernPts = kernStart
    /\ (sprPhase = "updated" /\ Len(sprStart.pts) < 3) =>
            (sprPts = sprStart.pts /\ sprVel = sprStart.vel)

\* both calls were made on boundaries of two points, displaced and moving
C19_Witness ==
    /\ kernPhase = "convolved"
    /\ Len(kernStart) = 2
    /\ kernStart[1] # kernStart[2]
    /\ sprPhase = "updated"
    /\ Len(sprStart.pts) = 2
    /\ sprStart.vel[1] # 0

(***************************************************************************)
(* BlobPhysics (src/src/core/BlobPhysics.ts): the centres and velocities   *)
(* of the blobs under init() and tick().  Lengths are in thousandths       *)
(* (PosOne per 1.0), velocities in millionths per tick (VelOne per 1.0),   *)
(* push strengths in units of 10^-9.  The control points of a blob are     *)
(* not part of the blob record here: no statement that writes a centre or  *)
(* a velocity reads them.  The pointer velocity, which tick only decays    *)
(* and nothing reads, is left out as well.                                 *)
(***************************************************************************)
NumBlobs == 2          \* numBlobs handed to the constructor

MaxTicks == 2          \* ticks run after init()

PosOne == 10^3

VelOne == 10^6

PHYSICS_MIN == -40 * PosOne

PHYSICS_MAX == 140 * PosOne

\* DEFAULT_CONFIG, in thousandths
antiClusteringStrength == 150

bounceDamping == 700

territoryStrength == 100

\* new SpatialHash(60)
PhysicsCellSize == 60 * PosOne

\* a / b rounded to the nearest integer, b > 0
RoundDiv(a, b) == (a + b \div 2) \div b

\* a / b in millionths, rounded down, for 0 <= a and 0 < b
RatioMicro(a, b) ==
    LET q == (a * 1000) \div b
        r == (a * 1000) % b
    IN  q * 1000 + (r * 1000) \div b

RECURSIVE IsqrtBetween(_, _, _)
\* the largest d in lo..hi with d * d <= n, n a digit sequence
IsqrtBetween(n, lo, hi) ==
    IF lo >= hi THEN lo
    ELSE LET mid == (lo + hi + 1) \div 2
         IN  IF BigLess(n, BigNorm(BigSquare(mid)))
             THEN IsqrtBetween(n, lo, mid - 1)
             ELSE IsqrtBetween(n, mid, hi)

\* Math.sqrt(dx * dx + dy * dy), rounded down to a thousandth.  For whole
\* thousandths r, Distance < r exactly when the square root is below r, and
\* Distance > 0 exactly when the square root is positive.
Distance(dx, dy) == IsqrtBetween(BigSumSquares(<<dx, dy>>), 0, 2^20)

\* Math.max(lo, Math.min(hi, x))
Clamp(lo, hi, x) == Max(lo, Min(hi, x))

\* Math.ceil(Math.sqrt(n))
CeilSqrt(n) == CHOOSE c \in 1..n : c * c >= n /\ (c - 1) * (c - 1) < n

\* the draws of Math.random() in initializeBlobs for one blob, at the ends of
\* their ranges: jitter is (Math.random() - 0.5) * 0.5 in thousandths
BlobDraws ==
    { [jitterX |-> 250, jitterY |-> 250, velocity |-> VelOne \div 100,
       size |-> 15 * PosOne, scrollAffinity |-> 300,
       personalSpace |-> 35 * PosOne, repulsionStrength |-> 25],
      [jitterX |-> -250, jitterY |-> 250, velocity |-> -(VelOne \div 100),
       size |-> 15 * PosOne, scrollAffinity |-> 300,
       personalSpace |-> 35 * PosOne, repulsionStrength |-> 25],
      [jitterX |-> 250, jitterY |-> 250, velocity |-> -(VelOne \div 100),
       size |-> 27 * PosOne, scrollAffinity |-> 800,
       personalSpace |-> 55 * PosOne, repulsionStrength |-> 40],
      [jitterX |-> -250, jitterY |-> 250, velocity |-> VelOne \div 100,
       size |-> 27 * PosOne, scrollAffinity |-> 800,
       personalSpace |-> 55 * PosOne, repulsionStrength |-> 40] }

\* the blob pushed by iteration i (from 0) of initializeBlobs' loop
InitializeBlob(i, count, draw) ==
    LET cols == CeilSqrt(count)
        rows == CeilDiv(count, cols)
        col == i % cols
        row == FloorDiv(i, cols)
        cellWidth == (PHYSICS_MAX - PHYSICS_MIN - 40 * PosOne) \div cols
        cellHeight == (PHYSICS_MAX - PHYSICS_MIN - 40 * PosOne) \div rows
        baseX == PHYSICS_MIN + 20 * PosOne + col * cellWidth + cellWidth \div 2
                    + MulMilli(cellWidth, draw.jitterX)
        baseY == PHYSICS_MIN + 20 * PosOne + row * cellHeight + cellHeight \div 2
                    + MulMilli(cellHeight, draw.jitterY)
        clampedX == Clamp(PHYSICS_MIN + 20 * PosOne, PHYSICS_MAX - 20 * PosOne, baseX)
        clampedY == Clamp(PHYSICS_MIN + 20 * PosOne, PHYSICS_MAX - 20 * PosOne, baseY)
    IN  [currentX |-> clampedX, currentY |-> clampedY,
         velocityX |-> draw.velocity, velocityY |-> draw.velocity,
         size |-> draw.size, scrollAffinity |-> draw.scrollAffinity,
         territoryX |-> clampedX, territoryY |-> clampedY,
         territoryRadius |-> 100 * PosOne,
         personalSpace |-> draw.personalSpace,
         repulsionStrength |-> draw.repulsionStrength,
         wallBounceCount |-> 0, lastRepulsionTime |-> 0,
         chaosLevel |-> 0, chaosLog |-> <<>>]

\* the blobs as the spatial hash reads them: currentX and currentY
HashView(bs) == [i \in 1..Len(bs) |-> [x |-> bs[i].currentX, y |-> bs[i].currentY]]

\* (mutant) the unit vector of the centre line reversed
NormalizedReversed(d, distance) == RoundDiv((-d) * 1000, distance)

\* normalizedDx = dx / distance, in thousandths
Normalized(d, distance) == RoundDiv(d * 1000, distance)

\* Math.max(blob.personalSpace || 50, other.personalSpace || 50)
RequiredDistance(blob, other) ==
    Max(IF blob.personalSpace = 0 THEN 50 * PosOne ELSE blob.personalSpace,
        IF other.personalSpace = 0 THEN 50 * PosOne ELSE other.personalSpace)

\* the guard of both passes
Repels(distance, requiredDistance) == distance < requiredDistance /\ distance > 0

\* normalized * repulsionForce * forceMultiplier * proximityMultiplier * share
\* for a neighbour at offset (dx, dy); share is 0.5 in the spatial-hash pass
\* and 1 in the pairwise pass
Repulsion(dx, dy, distance, requiredDistance, forceMultiplier, share) ==
    LET overlap == requiredDistance - distance
        repulsionForce ==
            MulMilli(RatioMicro(overlap, requiredDistance) * 55,
                     (antiClusteringStrength * 1000) \div 150)
        proximityMultiplier ==
            IF distance * 10 < requiredDistance * 7 THEN 3500 ELSE 1000
        strength ==
            MulMilli(MulMilli(MulMilli(repulsionForce, forceMultiplier),
                              proximityMultiplier), share)
    IN  [strength |-> strength,
         x |-> RoundDiv(MulMilli(strength, Normalized(dx, distance)), 1000),
         y |-> RoundDiv(MulMilli(strength, Normalized(dy, distance)), 1000)]

\* blob.repulsionStrength || 0.03
ForceMultiplier(blob) ==
    IF blob.repulsionStrength = 0 THEN 30 ELSE blob.repulsionStrength

\* the velocity changes of applyAntiClusteringWithSpatialHash, in order: for
\* each blob and each neighbour returned by queryNeighbors that passes the
\* guard, blob.velocity -= the repulsion
HashPassLog(bs, cs) ==
    LET maxPersonalSpace == 60 * PosOne
        OfBlob(b) ==
            LET neighbors == QueryResult(PhysicsCellSize, cs, HashView(bs),
                                         bs[b].currentX, bs[b].currentY,
                                         maxPersonalSpace, b)
                OfNeighbor(o) ==
                    LET dx == bs[o].currentX - bs[b].currentX
                        dy == bs[o].currentY - bs[b].currentY
                        distance == Distance(dx, dy)
                        requiredDistance == RequiredDistance(bs[b], bs[o])
                        r == Repulsion(dx, dy, distance, requiredDistance,
                                       ForceMultiplier(bs[b]), 500)
                    IN  IF Repels(distance, requiredDistance)
                        THEN <<[blob |-> b, other |-> o, strength |-> r.strength,
                                dvX |-> -r.x, dvY |-> -r.y]>>
                        ELSE <<>>
            IN  Concat([k \in 1..Len(neighbors) |-> OfNeighbor(neighbors[k])])
    IN  Concat([b \in 1..Len(bs) |-> OfBlob(b)])

\* (mutant) blob2 is pushed the way blob1 is
AddedToBlob2Negated(push) == -push

\* blob2.velocity += push
AddedToBlob2(push) == push

\* the velocity changes of applyEnhancedAntiClustering, in order: for each
\* pair i < j that passes the guard, blob1.velocity -= and blob2.velocity +=
PairPassLog(bs) ==
    LET OfPair(i, j) ==
            LET dx == bs[j].currentX - bs[i].currentX
                dy == bs[j].currentY - bs[i].currentY
                distance == Distance(dx, dy)
                requiredDistance == RequiredDistance(bs[i], bs[j])
                r1 == Repulsion(dx, dy, distance, requiredDistance,
                                ForceMultiplier(bs[i]), 1000)
                r2 == Repulsion(dx, dy, distance, requiredDistance,
                                ForceMultiplier(bs[j]), 1000)
            IN  IF Repels(distance, requiredDistance)
                THEN <<[blob |-> i, other |-> j, strength |-> r1.strength,
                        dvX |-> -r1.x, dvY |-> -r1.y],
                       [blob |-> j, other |-> i, strength |-> r2.strength,
                        dvX |-> AddedToBlob2(r2.x), dvY |-> AddedToBlob2(r2.y)]>>
                ELSE <<>>
    IN  Concat([i \in 1..Len(bs) |->
            Concat([j \in 1..Len(bs) |-> IF j > i THEN OfPair(i, j) ELSE <<>>])])

RECURSIVE SumPushes(_, _, _, _)
\* the sum of the field f of the first k pushes of log that act on blob b
SumPushes(log, b, f, k) ==
    IF k = 0 THEN 0
    ELSE SumPushes(log, b, f, k - 1) + (IF log[k].blob = b THEN log[k][f] ELSE 0)

\* the blobs after an anti-clustering pass with the pushes of log
ApplyPushes(bs, log) ==
    [b \in 1..Len(bs) |->
        [bs[b] EXCEPT
            !.velocityX = @ + SumPushes(log, b, "dvX", Len(log)),
            !.velocityY = @ + SumPushes(log, b, "dvY", Len(log)),
            !.lastRepulsionTime =
                IF \E k \in 1..Len(log) : log[k].blob = b THEN 1 ELSE @]]

\* updateTerritorialMovement: the pull back to the territory and the random
\* drift (Math.random() - 0.5) * 0.003 at the end rnd of its range; time is
\* taken outside the relocation window (time % 45 >= 0.1)
UpdateTerritorialMovement(blob, rnd) ==
    LET tdx == blob.territoryX - blob.currentX
        tdy == blob.territoryY - blob.currentY
        distanceFromTerritory == Distance(tdx, tdy)
        pullStrength ==
            MulMilli(RatioMicro(distanceFromTerritory - blob.territoryRadius,
                                blob.territoryRadius) \div 5,
                     (territoryStrength * 1000) \div 100)
        pullX == IF distanceFromTerritory > blob.territoryRadius
                 THEN RoundDiv(MulMilli(pullStrength,
                                        Normalized(tdx, distanceFromTerritory)), 1000)
                 ELSE 0
        pullY == IF distanceFromTerritory > blob.territoryRadius
                 THEN RoundDiv(MulMilli(pullStrength,
                                        Normalized(tdy, distanceFromTerritory)), 1000)
                 ELSE 0
    IN  [blob EXCEPT !.velocityX = @ + pullX + rnd * 1500,
                     !.velocityY = @ + pullY + rnd * 1500]

\* blob.chaosLevel = level, with the change noted in the blob's log of the
\* tick; chaosLevel is in millionths
Disturb(blob, kind, level) ==
    [blob EXCEPT !.chaosLevel = level,
                 !.chaosLog = Append(@, [kind |-> kind, before |-> blob.chaosLevel,
                                         after |-> level])]

\* applyAccelerometerForces: gravity * 0.0008 clamped to +-0.003, and the
\* chaos bump min(0.08, (|x| + |y|) * 0.02), capped at 0.2, when |x| or |y|
\* is above 0.3
ApplyAccelerometerForces(blob, g) ==
    LET maxForce == 3000
        gravityX == Clamp(-maxForce, maxForce, MulMilli(g.x, 800))
        gravityY == Clamp(-maxForce, maxForce, MulMilli(g.y, 800))
        deformationAmount == Min(80000, (Abs(g.x) + Abs(g.y)) * 20)
        pushed == [blob EXCEPT !.velocityX = @ + gravityX, !.velocityY = @ + gravityY]
    IN  IF Abs(g.x) > 300 \/ Abs(g.y) > 300
        THEN Disturb(pushed, "gravity", Min(blob.chaosLevel + deformationAmount, 200000))
        ELSE pushed

\* updateMovementWithAccelerometer: the neutral drift and the Brownian term,
\* each at the end rnd of its range
UpdateMovementWithAccelerometer(blob, rnd) ==
    [blob EXCEPT !.velocityX = @ + rnd * 500 + rnd * 500,
                 !.velocityY = @ + rnd * 500 + rnd * 500]

\* addEscapeVelocity, within 3 seconds of the last repulsion: a kick of 0.01
\* at angle 0 or pi
AddEscapeVelocity(blob, rnd) ==
    IF blob.lastRepulsionTime # 0
    THEN [blob EXCEPT !.velocityX = @ + rnd * 10000]
    ELSE blob

\* applyScrollEffect
ApplyScrollEffect(blob, stickiness, m) ==
    LET attractionStrength == MulMilli(MulMilli(stickiness, blob.scrollAffinity), 200)
        pulled == [blob EXCEPT
            !.velocityX = @ + MulMilli(attractionStrength, m.x - blob.currentX),
            !.velocityY = @ + MulMilli(attractionStrength, m.y - blob.currentY)]
    IN  IF stickiness > 150
        THEN Disturb(pulled, "scroll", Min(blob.chaosLevel + stickiness * 20, 150000))
        ELSE pulled

\* recordBounce: the random kick (Math.random() - 0.5) * 0.05 at the end rnd
\* of its range
RecordBounce(blob, rnd) ==
    Disturb([blob EXCEPT !.wallBounceCount = @ + 1,
                         !.velocityX = @ + rnd * 25000,
                         !.velocityY = @ + rnd * 25000],
            "bounce", Min(blob.chaosLevel + 40000, 150000))

\* blob.size * 0.8
Margin(blob) == MulMilli(blob.size, 800)

\* margin * 1.5
MarginY(blob) == MulMilli(Margin(blob), 1500)

LeftWall(blob, rnd) ==
    IF blob.currentX < PHYSICS_MIN + Margin(blob)
    THEN RecordBounce([blob EXCEPT
            !.currentX = PHYSICS_MIN + Margin(blob),
            !.velocityX = MulMilli(Abs(@), bounceDamping)], rnd)
    ELSE blob

RightWall(blob, rnd) ==
    IF blob.currentX > PHYSICS_MAX - Margin(blob)
    THEN RecordBounce([blob EXCEPT
            !.currentX = PHYSICS_MAX - Margin(blob),
            !.velocityX = -MulMilli(Abs(@), bounceDamping)], rnd)
    ELSE blob

TopWall(blob, rnd) ==
    IF blob.currentY < PHYSICS_MIN + MarginY(blob)
    THEN RecordBounce([blob EXCEPT
            !.currentY = PHYSICS_MIN + MarginY(blob),
            !.velocityY = MulMilli(Abs(@), bounceDamping)], rnd)
    ELSE blob

\* (mutant) the bottom wall left open
BottomWallOpen(blob, rnd) == blob

BottomWall(blob, rnd) ==
    IF blob.currentY > PHYSICS_MAX - MarginY(blob)
    THEN RecordBounce([blob EXCEPT
            !.currentY = PHYSICS_MAX - MarginY(blob),
            !.velocityY = -MulMilli(Abs(@), bounceDamping)], rnd)
    ELSE blob

\* handleWallBouncing: the four walls in the order of the source
HandleWallBouncing(blob, rnd) ==
    BottomWall(TopWall(RightWall(LeftWall(blob, rnd), rnd), rnd), rnd)

\* blob.currentX += blob.velocityX; blob.currentY += blob.velocityY
Integrate2D(blob) ==
    [blob EXCEPT !.currentX = @ + RoundDiv(blob.velocityX, 1000),
                 !.currentY = @ + RoundDiv(blob.velocityY, 1000)]

\* blob.velocityX *= 0.992; blob.velocityY *= 0.992
Friction(blob) ==
    [blob EXCEPT !.velocityX = MulMilli(@, 992), !.velocityY = MulMilli(@, 992)]

\* (mutant) the chaos level is left as it is in spring mode too
DecayedChaosKept(chaos, spring) == chaos

\* updateSafeOrganicDeformation, for the chaos level: updateSpringDeformation
\* ends with if (blob.chaosLevel) blob.chaosLevel *= blob.turbulenceDecay
\* (0.985 for every blob); updateSinusoidalDeformation does not touch it
DecayedChaos(chaos, spring) ==
    IF spring /\ chaos # 0 THEN MulMilli(chaos, 985) ELSE chaos

\* the chaos level after the deformation step of the tick
DecayChaos(blob, spring) ==
    Disturb(blob, "deform", DecayedChaos(blob.chaosLevel, spring))

\* the blob as updateSafeOrganicDeformation finds it: after the territorial,
\* accelerometer, movement and escape steps of updateScreensaverPhysics
BeforeDeformation(blob, g, rnd) ==
    AddEscapeVelocity(
        UpdateMovementWithAccelerometer(
            ApplyAccelerometerForces(
                UpdateTerritorialMovement([blob EXCEPT !.chaosLog = <<>>], rnd), g),
            rnd), rnd)

\* updateScreensaverPhysics(blob, deltaTime, time): deltaTime is received and
\* not read
UpdateScreensaverPhysics(blob, deltaTime, g, stickiness, m, rnd, spring) ==
    LET forced == DecayChaos(BeforeDeformation(blob, g, rnd), spring)
        scrolled == IF stickiness > 10 THEN ApplyScrollEffect(forced, stickiness, m)
                    ELSE forced
    IN  Friction(HandleWallBouncing(Integrate2D(scrolled), rnd))

\* the values latched by the setters: gravity and stickiness in thousandths,
\* the pointer in the coordinates of the blobs
Gravities == {[x |-> 0, y |-> 0], [x |-> 10 * PosOne, y |-> -10 * PosOne]}

Stickinesses == {0, 1000 * PosOne}

MousePositions == {[x |-> -1000 * PosOne, y |-> -1000 * PosOne],
                   [x |-> 1000 * PosOne, y |-> 1000 * PosOne]}

\* the ends of the range of a centred Math.random() draw
RandomSigns == {-1, 1}

\* the blob counts handed to the constructor
BlobCounts == {-1, NumBlobs}

\* new BlobPhysics(numBlobs, {useSpatialHash})
PhysicsInit ==
    /\ numBlobs \in BlobCounts
    /\ physBlobs = <<>>
    /\ initialized = FALSE
    /\ useSpatialHash \in BOOLEAN
    /\ useSpringSystem = TRUE
    /\ gravity = [x |-> 0, y |-> 0]
    /\ scrollStickiness = 0
    /\ mouse = [x |-> 50 * PosOne, y |-> 50 * PosOne]
    /\ physCells = <<>>
    /\ ticks = 0
    /\ pass = NoPass
    /\ lifecycle = "none"
    /\ noop = "none"

\* isReady()
IsReady == initialized

\* (mutant) init() never returns early
InitReturnsEarlyNever(init) == FALSE

\* if (this.initialized) return
InitReturnsEarly(init) == init

\* initializeBlobs: for (let i = 0; i < this.numBlobs; i++) push a blob
InitializeBlobs(count, draws) ==
    [i \in 1..count |-> InitializeBlob(i - 1, count, draws[i])]

\* init() of BlobPhysics
InitCall ==
    /\ IF InitReturnsEarly(initialized)
       THEN UNCHANGED <<physBlobs, initialized, ticks, pass>>
       ELSE /\ \E draws \in [1..numBlobs -> BlobDraws] :
                    physBlobs' = InitializeBlobs(numBlobs, draws)
            /\ initialized' = TRUE
            /\ ticks' = 0
            /\ pass' = NoPass
    /\ lifecycle' = "init"
    /\ noop' = IF initialized THEN "init" ELSE "none"
    /\ UNCHANGED <<numBlobs, useSpatialHash, useSpringSystem, gravity, scrollStickiness,
                   mouse, physCells>>

\* (mutant) dispose() keeps the blobs
DisposedBlobsKept(bs) == bs

\* this.blobs = []
DisposedBlobs(bs) == <<>>

\* dispose() of BlobPhysics
DisposeCall ==
    /\ physBlobs' = DisposedBlobs(physBlobs)
    /\ initialized' = FALSE
    /\ ticks' = 0
    /\ pass' = NoPass
    /\ lifecycle' = "dispose"
    /\ noop' = "none"
    /\ UNCHANGED <<numBlobs, useSpatialHash, useSpringSystem, gravity, scrollStickiness,
                   mouse, physCells>>

\* setGravity(gravity) of BlobPhysics
SetGravityCall ==
    /\ \E g \in Gravities : gravity' = g
    /\ noop' = "none"
    /\ UNCHANGED <<numBlobs, physBlobs, initialized, useSpatialHash, useSpringSystem,
                   scrollStickiness,
                   mouse, physCells, ticks, pass, lifecycle>>

\* setScrollStickiness(value) of BlobPhysics
SetScrollStickinessCall ==
    /\ \E value \in Stickinesses : scrollStickiness' = value
    /\ noop' = "none"
    /\ UNCHANGED <<numBlobs, physBlobs, initialized, useSpatialHash, useSpringSystem,
                   gravity, mouse,
                   physCells, ticks, pass, lifecycle>>

\* updateMousePosition(x, y) of BlobPhysics
UpdateMousePositionCall ==
    /\ \E m \in MousePositions : mouse' = m
    /\ noop' = "none"
    /\ UNCHANGED <<numBlobs, physBlobs, initialized, useSpatialHash, useSpringSystem,
                   gravity, scrollStickiness, physCells, ticks, pass, lifecycle>>

\* (mutant) tick queries the hash as the last tick left it
CellsForTickStale(useHash, cs, bs) == cs

\* if (this.config.useSpatialHash) this.spatialHash.rebuild(this.blobs)
CellsForTick(useHash, cs, bs) ==
    IF useHash THEN RebuildCells(PhysicsCellSize, HashView(bs)) ELSE cs

\* (mutant) tick runs whether or not the simulation is initialized
TickReturnsEarlyNever(init) == FALSE

\* if (!this.initialized) return
TickReturnsEarly(init) == ~init

\* tick(deltaTime, time) of BlobPhysics
TickCall(deltaTime) ==
    /\ IF TickReturnsEarly(initialized)
       THEN UNCHANGED <<physBlobs, physCells, ticks, pass>>
       ELSE /\ ticks < MaxTicks
            /\ \E rnd \in RandomSigns :
               \E cs \in {CellsForTick(useSpatialHash, physCells, physBlobs)} :
               \E log \in {IF useSpatialHash THEN HashPassLog(physBlobs, cs)
                           ELSE PairPassLog(physBlobs)} :
               \E pushed \in {ApplyPushes(physBlobs, log)} :
               \E other \in {IF useSpatialHash THEN PairPassLog(physBlobs)
                             ELSE HashPassLog(physBlobs,
                                    RebuildCells(PhysicsCellSize, HashView(physBlobs)))} :
                    /\ physCells' = cs
                    /\ pass' = [start |-> physBlobs, log |-> log, after |-> pushed,
                                other |-> other, deltaTime |-> deltaTime, rnd |-> rnd]
                    /\ physBlobs' = [b \in 1..Len(pushed) |->
                            UpdateScreensaverPhysics(pushed[b], deltaTime, gravity,
                                                     scrollStickiness, mouse, rnd,
                                                     useSpringSystem)]
            /\ ticks' = ticks + 1
    /\ noop' = IF initialized THEN "none" ELSE "tick"
    /\ UNCHANGED <<numBlobs, initialized, useSpatialHash, useSpringSystem, gravity,
                   scrollStickiness,
                   mouse, lifecycle>>

\* the calls of a caller that holds the simulation directly
InitPhysicsBlobs == InitCall /\ UNCHANGED nonPhysicsVars

Dispose == DisposeCall /\ UNCHANGED nonPhysicsVars

SetGravity == SetGravityCall /\ UNCHANGED nonPhysicsVars

SetScrollStickiness == SetScrollStickinessCall /\ UNCHANGED nonPhysicsVars

UpdateMousePosition == UpdateMousePositionCall /\ UNCHANGED nonPhysicsVars

\* tick(0.016, time): the caller ticks once per frame of 16 ms
Tick == TickCall(FrameDt) /\ UNCHANGED nonPhysicsVars

NextPhysics ==
    \/ InitPhysicsBlobs
    \/ Dispose
    \/ SetGravity
    \/ SetScrollStickiness
    \/ UpdateMousePosition
    \/ Tick

InitPhysics == HashIdle /\ SpringIdle /\ HullIdle /\ KernelIdle /\ PhysicsInit /\ WorkerIdle /\ MotionIdle /\ ScrollIdle

SpecPhysics == InitPhysics /\ [][NextPhysics]_vars

\* new BlobPhysics(NumBlobs, {useSpringSystem}): the simulation with either
\* deformation mode
ToggleInit ==
    /\ numBlobs = NumBlobs
    /\ physBlobs = <<>>
    /\ initialized = FALSE
    /\ useSpatialHash = TRUE
    /\ useSpringSystem \in BOOLEAN
    /\ gravity = [x |-> 0, y |-> 0]
    /\ scrollStickiness = 0
    /\ mouse = [x |-> 50 * PosOne, y |-> 50 * PosOne]
    /\ physCells = <<>>
    /\ ticks = 0
    /\ pass = NoPass
    /\ lifecycle = "none"
    /\ noop = "none"

InitToggles == HashIdle /\ SpringIdle /\ HullIdle /\ KernelIdle /\ ToggleInit /\ WorkerIdle /\ MotionIdle /\ ScrollIdle

SpecToggles == InitToggles /\ [][NextPhysics]_vars

(***************************************************************************)
(* The boundary of a blob.  initializeBlobs gives every blob 8 control     *)
(* points, and every tick deforms them in updateSafeOrganicDeformation.    *)
(* The boundary never feeds back into the centre or the velocity of the    *)
(* blob, so it is followed here for a simulation of one blob in the        *)
(* default configuration (spring system, Gaussian smoothing): the control  *)
(* points of blobs[0] are in the SpringSystem variables, radii in units    *)
(* of 1 / FP.  The angle of a point drifts by at most 0.0006 a tick, below *)
(* the thousandths in which its cosine is taken, and is kept at its        *)
(* initial value.                                                          *)
(***************************************************************************)
numControlPoints == 8

\* cos and sin of pointAngle = (j / numControlPoints) * 2 pi, in thousandths
CosPointAngle == <<1000, 707, 0, -707, -1000, -707, 0, 707>>

SinPointAngle == <<0, 707, 1000, 707, 0, -707, -1000, -707>>

\* radiusVariation = 0.8 + Math.random() * 0.35 in thousandths, at the ends
\* of its range
RadiusVariations == {800, 1149}

\* the draws of radiusVariation for the points of one blob: one point and
\* the seven others
ControlPatterns ==
    {[j \in 1..numControlPoints |-> IF j = 1 THEN a ELSE b] :
        a \in RadiusVariations, b \in RadiusVariations}

\* controlPoints and controlVelocities pushed by initializeBlobs for a blob
\* of baseSize size
InitialControlPoints(size, variation) ==
    [j \in 1..numControlPoints |->
        [radius |-> MulMilli(size * (FP \div PosOne), variation[j]),
         baseRadius |-> MulMilli(size * (FP \div PosOne), variation[j])]]

InitialControlVelocities == [j \in 1..numControlPoints |-> 0]

\* the weights of new GaussianKernel(5, 1.2)
SmoothingWeights == ComputeWeights(OddSize(5), 1200)

\* the deltaTime handed to tick, in ms; the worker caps it at 33
DeltaTimes == {FrameDt, 33}

\* externalForces of updateSpringDeformation:
\* -cos(point.angle - velocityAngle) * velocityMag * 0.5, which is
\* -(cos(angle) * velocityX + sin(angle) * velocityY) * 0.5, plus the
\* turbulence (Math.random() - 0.5) * chaosLevel * 0.3 at the end rnd of its
\* range when chaosLevel > 0.01
ExternalForces(blob, rnd) ==
    [i \in 1..numControlPoints |->
        -((MulMilli(blob.velocityX, CosPointAngle[i])
             + MulMilli(blob.velocityY, SinPointAngle[i])) * 5)
        + (IF blob.chaosLevel > 10000
           THEN rnd * MulMilli(blob.chaosLevel * 10, 150)
           ELSE 0)]

\* (mutant) the spring step takes the deltaTime of the tick
SpringDtOfTick(deltaTime) == deltaTime

\* the dt handed to updateAllControlPoints: 0.016, "Fixed dt for stability"
SpringDt(deltaTime) == FrameDt

\* updateSpringDeformation: the control points and velocities it leaves
UpdateSpringDeformation(pts, vel, blob, deltaTime, rnd) ==
    UpdateAllControlPoints(pts, vel, ExternalForces(blob, rnd), SpringDt(deltaTime))

\* this.gaussianKernel.convolve(blob.controlPoints)
SmoothControlPoints(pts) ==
    CHOOSE res \in
        { [i \in 1..Len(pts) |-> [pts[i] EXCEPT !.radius = radii[i]]] :
            radii \in {ConvolveRadii([i \in 1..Len(pts) |-> pts[i].radius],
                                     SmoothingWeights)} } : TRUE

\* updateSafeOrganicDeformation with useSpringSystem and useGaussianSmoothing
UpdateSafeOrganicDeformation(pts, vel, blob, deltaTime, rnd) ==
    CHOOSE res \in
        { [pts |-> SmoothControlPoints(u.pts), vel |-> u.vel] :
            u \in {UpdateSpringDeformation(pts, vel, blob, deltaTime, rnd)} } : TRUE

\* new BlobPhysics(1)
OneBlobInit ==
    /\ numBlobs = 1
    /\ physBlobs = <<>>
    /\ initialized = FALSE
    /\ useSpatialHash = TRUE
    /\ useSpringSystem = TRUE
    /\ gravity = [x |-> 0, y |-> 0]
    /\ scrollStickiness = 0
    /\ mouse = [x |-> 50 * PosOne, y |-> 50 * PosOne]
    /\ physCells = <<>>
    /\ ticks = 0
    /\ pass = NoPass
    /\ lifecycle = "none"
    /\ noop = "none"

\* init(), with the control points initializeBlobs gives the blob
InitBoundary ==
    /\ InitCall
    /\ IF InitReturnsEarly(initialized)
       THEN UNCHANGED <<sprPts, sprVel, sprPhase>>
       ELSE /\ \E variation \in ControlPatterns :
                    sprPts' = InitialControlPoints(physBlobs'[1].size, variation)
            /\ sprVel' = InitialControlVelocities
            /\ sprPhase' = "new"
    /\ UNCHANGED <<sprStart, nonBoundaryVars>>

\* tick(deltaTime, time), with the deformation of the blob's boundary in
\* updateScreensaverPhysics
TickBoundary ==
    /\ \E deltaTime \in DeltaTimes : TickCall(deltaTime)
    /\ IF TickReturnsEarly(initialized)
       THEN UNCHANGED <<sprPts, sprVel, sprPhase>>
       ELSE /\ \E u \in {UpdateSafeOrganicDeformation(
                            sprPts, sprVel,
                            BeforeDeformation(pass'.after[1], gravity, pass'.rnd),
                            pass'.deltaTime, pass'.rnd)} :
                    /\ sprPts' = u.pts
                    /\ sprVel' = u.vel
            /\ sprPhase' = "updated"
    /\ UNCHANGED <<sprStart, nonBoundaryVars>>

NextBoundary == InitBoundary \/ SetGravity \/ TickBoundary

InitBoundaryIdle == HashIdle /\ SpringIdle /\ HullIdle /\ KernelIdle /\ OneBlobInit /\ WorkerIdle /\ MotionIdle /\ ScrollIdle

SpecBoundary == InitBoundaryIdle /\ [][NextBoundary]_vars

(***************************************************************************)
(* The physics worker (src/src/workers/physics.worker.ts): one BlobPhysics *)
(* instance driven by messages.  A message is handled only when no         *)
(* then-callback is pending: the callback of physics.init() is a microtask *)
(* and runs before the next message event.  The worker's dt is read from   *)
(* the clock and taken at the frame time; time is not part of the model.   *)
(* 'setTilt' stores a field that nothing reads and has no action.          *)
(***************************************************************************)
\* the draws of initializeBlobs in the worker
WorkerDraws == {d \in BlobDraws : d.jitterX > 0}

\* (mutant) the render data of no blob
ExtractRenderDataEmpty(bs) == <<>>

\* extractRenderData: one entry per blob
ExtractRenderData(bs) ==
    [i \in 1..Len(bs) |-> [x |-> bs[i].currentX, y |-> bs[i].currentY, size |-> bs[i].size]]

\* case 'init': physics = new BlobPhysics(blobCount, config); physics.init()
\* runs to its end and its then-callback is queued
WorkerInit ==
    /\ microtasks = 0
    /\ \E blobCount \in BlobCounts, hash \in BOOLEAN :
          /\ numBlobs' = blobCount
          /\ useSpatialHash' = hash
          /\ useSpringSystem' = TRUE
          /\ \E draws \in [1..blobCount -> WorkerDraws] :
                physBlobs' = InitializeBlobs(blobCount, draws)
    /\ initialized' = TRUE
    /\ gravity' = [x |-> 0, y |-> 0]
    /\ scrollStickiness' = 0
    /\ mouse' = [x |-> 50 * PosOne, y |-> 50 * PosOne]
    /\ physCells' = <<>>
    /\ ticks' = 0
    /\ pass' = NoPass
    /\ lifecycle' = "init"
    /\ noop' = "none"
    /\ hasPhysics' = TRUE
    /\ microtasks' = microtasks + 1
    /\ handled' = "init"
    /\ posted' = <<>>
    /\ readyPosted' = FALSE
    /\ UNCHANGED <<isInitialized, nonWorkerVars>>

\* the then-callback of physics.init()
InitResolved ==
    /\ microtasks > 0
    /\ microtasks' = microtasks - 1
    /\ isInitialized' = TRUE
    /\ posted' = <<[type |-> "ready"]>>
    /\ readyPosted' = TRUE
    /\ handled' = "then"
    /\ UNCHANGED <<hasPhysics, physicsVars, nonWorkerVars>>

\* case 'tick'
WorkerTick ==
    /\ microtasks = 0
    /\ IF ~hasPhysics \/ ~isInitialized
       THEN /\ posted' = <<>>
            /\ UNCHANGED physicsVars
       ELSE /\ TickCall(FrameDt)
            /\ posted' = <<[type |-> "frame", blobs |-> ExtractRenderData(physBlobs')]>>
    /\ handled' = "tick"
    /\ UNCHANGED <<hasPhysics, isInitialized, microtasks, readyPosted, nonWorkerVars>>

\* case 'setGravity'
WorkerSetGravity ==
    /\ microtasks = 0
    /\ IF hasPhysics THEN SetGravityCall ELSE UNCHANGED physicsVars
    /\ handled' = "setGravity"
    /\ posted' = <<>>
    /\ UNCHANGED <<hasPhysics, isInitialized, microtasks, readyPosted, nonWorkerVars>>

\* case 'setScrollStickiness'
WorkerSetScrollStickiness ==
    /\ microtasks = 0
    /\ IF hasPhysics THEN SetScrollStickinessCall ELSE UNCHANGED physicsVars
    /\ handled' = "setScrollStickiness"
    /\ posted' = <<>>
    /\ UNCHANGED <<hasPhysics, isInitialized, microtasks, readyPosted, nonWorkerVars>>

\* case 'updateMouse'
WorkerUpdateMouse ==
    /\ microtasks = 0
    /\ IF hasPhysics THEN UpdateMousePositionCall ELSE UNCHANGED physicsVars
    /\ handled' = "updateMouse"
    /\ posted' = <<>>
    /\ UNCHANGED <<hasPhysics, isInitialized, microtasks, readyPosted, nonWorkerVars>>

\* case 'dispose': physics?.dispose(); physics = null; isInitialized = false.
\* The instance is dropped, and its variables take their idle values.
WorkerDispose ==
    /\ microtasks = 0
    /\ numBlobs' = 0
    /\ physBlobs' = <<>>
    /\ initialized' = FALSE
    /\ useSpatialHash' = TRUE
    /\ useSpringSystem' = TRUE
    /\ gravity' = [x |-> 0, y |-> 0]
    /\ scrollStickiness' = 0
    /\ mouse' = [x |-> 0, y |-> 0]
    /\ physCells' = <<>>
    /\ ticks' = 0
    /\ pass' = NoPass
    /\ lifecycle' = "none"
    /\ noop' = "none"
    /\ hasPhysics' = FALSE
    /\ isInitialized' = FALSE
    /\ readyPosted' = FALSE
    /\ handled' = "dispose"
    /\ posted' = <<>>
    /\ UNCHANGED <<microtasks, nonWorkerVars>>

NextWorker ==
    \/ WorkerInit
    \/ InitResolved
    \/ WorkerTick
    \/ WorkerSetGravity
    \/ WorkerSetScrollStickiness
    \/ WorkerUpdateMouse
    \/ WorkerDispose

InitWorker == HashIdle /\ SpringIdle /\ HullIdle /\ KernelIdle /\ PhysicsIdle /\ WorkerIdle /\ MotionIdle /\ ScrollIdle

SpecWorker == InitWorker /\ [][NextWorker]_vars

(***************************************************************************)
(* DeviceMotion (src/src/motion/DeviceMotion.ts): one instance in a        *)
(* browser window.  initialize() is an async function: it runs up to its   *)
(* await of requestPermission(), and its continuation runs when the        *)
(* permission request has settled; any other call can run in between.      *)
(* The component calls initialize() once for an instance.  Sensor readings *)
(* are in thousandths of their unit, callback data in thousandths.         *)
(***************************************************************************)
\* a reading that is null in the event
Null == -(2^30)

\* the windows an instance is constructed in: isSecureContext, the API
\* present ('DeviceMotionEvent' in window, else 'DeviceOrientationEvent' in
\* window), and whether that API has a requestPermission function
Windows ==
    [secure : BOOLEAN, api : {"motion", "orientation", "none"}, prompt : BOOLEAN]

\* the outcomes of the permission request
PermissionResponses == {"granted", "denied", "error"}

\* event.accelerationIncludingGravity of a devicemotion event (<<>> for null)
MotionEvents ==
    { <<>>,
      <<[x |-> Null, y |-> 0, z |-> 9800]>>,
      <<[x |-> 0, y |-> 0, z |-> 9800]>>,
      <<[x |-> 4900, y |-> -19600, z |-> 9800]>> }

\* beta, gamma and alpha of a deviceorientation event
OrientationEvents ==
    { [beta |-> Null, gamma |-> 0, alpha |-> 0],
      [beta |-> 0, gamma |-> 0, alpha |-> Null],
      [beta |-> 45000, gamma |-> -90000, alpha |-> 0],
      [beta |-> 45000, gamma |-> 90000, alpha |-> 180000] }

\* new DeviceMotion(callback)
MotionInit ==
    /\ dmWindow \in Windows
    /\ dmUseMotionAPI = FALSE
    /\ dmIsListening = FALSE
    /\ dmAwait = "idle"
    /\ dmListeners = {}
    /\ dmCleanedUp = "no"
    /\ dmDelivered = <<>>

\* initialize() up to its await: the context and API checks
Initialize ==
    /\ dmAwait = "idle"
    /\ IF ~dmWindow.secure
       THEN /\ dmAwait' = "returned"
            /\ UNCHANGED dmUseMotionAPI
       ELSE IF dmWindow.api = "motion"
       THEN /\ dmUseMotionAPI' = TRUE
            /\ dmAwait' = "permission"
       ELSE IF dmWindow.api = "orientation"
       THEN /\ dmUseMotionAPI' = FALSE
            /\ dmAwait' = "permission"
       ELSE /\ dmAwait' = "returned"
            /\ UNCHANGED dmUseMotionAPI
    /\ UNCHANGED <<dmWindow, dmIsListening, dmListeners, dmCleanedUp, dmDelivered,
                   nonMotionVars>>

\* requestPermission(): the value its promise resolves to
HasPermission(prompt, response) == IF prompt THEN response = "granted" ELSE TRUE

\* startListening: the listeners attached afterwards
ListenersAfterStart(listening, useMotion, listeners) ==
    IF listening THEN listeners
    ELSE listeners \cup {IF useMotion THEN "devicemotion" ELSE "deviceorientation"}

\* the continuation of initialize() after await this.requestPermission()
PermissionSettled ==
    /\ dmAwait = "permission"
    /\ \E response \in PermissionResponses :
          IF HasPermission(dmWindow.prompt, response)
          THEN /\ dmListeners' = ListenersAfterStart(dmIsListening, dmUseMotionAPI,
                                                     dmListeners)
               /\ dmIsListening' = TRUE
          ELSE UNCHANGED <<dmListeners, dmIsListening>>
    /\ dmAwait' = "returned"
    /\ UNCHANGED <<dmWindow, dmUseMotionAPI, dmCleanedUp, dmDelivered, nonMotionVars>>

\* Math.max(-1, Math.min(1, a / 9.8))
Tilt(a) == Clamp(-1000, 1000, RoundDiv(a * 1000, 9800))

\* handleMotion, for a devicemotion event dispatched to the attached listener
HandleMotion ==
    /\ "devicemotion" \in dmListeners
    /\ \E event \in MotionEvents :
          IF event = <<>> \/ (event # <<>> /\ Null \in {event[1].x, event[1].y, event[1].z})
          THEN UNCHANGED dmDelivered
          ELSE dmDelivered' = <<[x |-> Tilt(event[1].x), y |-> Tilt(event[1].y),
                                 z |-> Tilt(event[1].z)]>>
    /\ UNCHANGED <<dmWindow, dmUseMotionAPI, dmIsListening, dmAwait, dmListeners,
                   dmCleanedUp, nonMotionVars>>

\* handleOrientation, for a deviceorientation event dispatched to the listener
HandleOrientation ==
    /\ "deviceorientation" \in dmListeners
    /\ \E event \in OrientationEvents :
          IF event.beta = Null \/ event.gamma = Null
          THEN UNCHANGED dmDelivered
          ELSE dmDelivered' = <<[x |-> RoundDiv(event.beta, 90),
                                 y |-> RoundDiv(event.gamma, 90),
                                 z |-> IF event.alpha # 0 /\ event.alpha # Null
                                       THEN RoundDiv(event.alpha, 360) ELSE 0]>>
    /\ UNCHANGED <<dmWindow, dmUseMotionAPI, dmIsListening, dmAwait, dmListeners,
                   dmCleanedUp, nonMotionVars>>

\* cleanup()
Cleanup ==
    /\ IF dmIsListening
       THEN /\ dmListeners' = dmListeners \ {IF dmUseMotionAPI THEN "devicemotion"
                                             ELSE "deviceorientation"}
            /\ dmIsListening' = FALSE
       ELSE UNCHANGED <<dmListeners, dmIsListening>>
    /\ dmCleanedUp' = dmAwait
    /\ UNCHANGED <<dmWindow, dmUseMotionAPI, dmAwait, dmDelivered, nonMotionVars>>

NextMotion ==
    \/ Initialize
    \/ PermissionSettled
    \/ HandleMotion
    \/ HandleOrientation
    \/ Cleanup

InitMotion == HashIdle /\ SpringIdle /\ HullIdle /\ KernelIdle /\ PhysicsIdle /\ WorkerIdle /\ MotionInit /\ ScrollIdle

SpecMotion == InitMotion /\ [][NextMotion]_vars

(***************************************************************************)
(* ScrollHandler (src/src/motion/DeviceMotion.ts) and the wheel handling   *)
(* of the TinyVectors component (src/src/svelte/index.ts).  The component  *)
(* holds a simulation, of which only the latched scrollStickiness is       *)
(* followed here, and creates its ScrollHandler when init() has resolved.  *)
(* Stickiness, velocities and strengths of the handler are in millionths,  *)
(* the latched scrollStickiness in thousandths, times in ms.  Animation    *)
(* frames are FrameDt apart; a timeout callback runs in the first frame    *)
(* interval in which it is due.  Wheel events arrive at the times of       *)
(* WheelTimes, and the clock is followed until every timeout set by them   *)
(* has fired (MaxNow); frames go on after that.  The randomness of a pull  *)
(* force is stored and never read by the handler and is left out.          *)
(***************************************************************************)
ScrollOne == 10^6

decayRate == 920

MaxWheelEvents == 2     \* wheel events dispatched to the component

\* Date.now() when the component is mounted
StartTime == 10^3

\* the times at which a wheel event can arrive: at mount, 96 ms and 304 ms
\* later
WheelTimes == {StartTime, StartTime + 6 * FrameDt, StartTime + 19 * FrameDt}

\* the last frame whose time is followed: 200 ms after the last wheel time
MaxNow == StartTime + 32 * FrameDt

\* event.deltaY of a wheel event
DeltaYs == {-30, 100, 900}

\* a * b for a and b in millionths, rounded to the nearest millionth
MulMicro(a, b) ==
    LET a1 == a \div 1000
        a0 == a % 1000
        b1 == b \div 1000
        b0 == b % 1000
        q == a1 * b0 + a0 * b1
    IN  a1 * b1 + (q \div 1000) + (((q % 1000) * 1000 + a0 * b0 + 500000) \div ScrollOne)

\* the pull force pushed by generatePullForce, or none
GeneratedPullForce(speedStickiness, distanceStickiness, direction, explosive) ==
    IF direction <= 0 \/ speedStickiness > 400000 \/ distanceStickiness > 400000 \/ explosive
    THEN LET pullStrength == speedStickiness + MulMilli(distanceStickiness, 700)
         IN  <<[strength |-> IF explosive
                             THEN Min(MulMilli(pullStrength, 2500), 8 * ScrollOne)
                             ELSE Min(pullStrength, 3 * ScrollOne),
                time |-> 0,
                explosive |-> explosive]>>
    ELSE <<>>

\* generatePullForce: this.pullForces afterwards
GeneratePullForce(forces, speedStickiness, distanceStickiness, direction, explosive) ==
    LET pushed == forces \o GeneratedPullForce(speedStickiness, distanceStickiness,
                                               direction, explosive)
    IN  IF pushed # forces /\ Len(pushed) > (IF explosive THEN 10 ELSE 8)
        THEN Tail(pushed)
        ELSE pushed

\* handleScroll of ScrollHandler for a wheel event of deltaY at currentTime:
\* the fields it leaves (startDecay and setTimeout are in the action)
HandleScroll(deltaY, currentTime) ==
    LET deltaTime == currentTime - shLastScrollTime
        direction == IF deltaY > 0 THEN 1 ELSE -1
        fresh == ~shIsScrolling \/ deltaTime > 200
        distance == (IF fresh THEN 0 ELSE shTotalScrollDistance) + Abs(deltaY)
        scrollSpeed == RoundDiv(Abs(deltaY) * ScrollOne, Max(deltaTime, 16))
        velocity == MulMilli(shScrollVelocity, 700) + MulMilli(scrollSpeed, 300)
        speedStickiness == Min(RoundDiv(velocity * 2, 3), 2 * ScrollOne)
        distanceStickiness == Min(distance * (ScrollOne \div 400), 2500000)
        explosiveThreshold == MulMicro(speedStickiness, distanceStickiness)
        isExplosive == \/ explosiveThreshold > 2 * ScrollOne
                       \/ (speedStickiness > 1200000 /\ distanceStickiness > ScrollOne)
        plainTarget == Max(speedStickiness, MulMilli(distanceStickiness, 900))
        targetStickiness == IF isExplosive
                            THEN Min(MulMilli(plainTarget, 1800), 4 * ScrollOne)
                            ELSE plainTarget
    IN  [stickiness |-> Max(shStickiness, targetStickiness),
         scrollVelocity |-> velocity,
         totalScrollDistance |-> distance,
         scrollStartTime |-> IF fresh THEN currentTime ELSE shScrollStartTime,
         scrollDirection |-> direction,
         peakVelocity |-> Max(IF fresh THEN 0 ELSE shPeakVelocity, scrollSpeed),
         pullForces |->
            IF speedStickiness > 300000 \/ distanceStickiness > 300000 \/ isExplosive
            THEN GeneratePullForce(shPullForces, speedStickiness, distanceStickiness,
                                   direction, isExplosive)
            ELSE shPullForces]

\* scrollHandler.getStickiness() * 0.12, as latched by setScrollStickiness
LatchedStickiness(stickiness) == RoundDiv(MulMilli(stickiness, 120), 1000)

\* the callback of physics.init().then in the component: the scroll handler
\* is created
ComponentReady ==
    /\ ~scrollHandler
    /\ scrollHandler' = TRUE
    /\ shHandled' = "ready"
    /\ UNCHANGED <<shStickiness, shLastScrollTime, shScrollVelocity, shTotalScrollDistance,
                   shScrollStartTime, shIsScrolling, shScrollDirection, shPullForces,
                   shPeakVelocity, timeouts, decayFrames, now, wheelEvents,
                   physicsVars, nonScrollVars>>

\* handleScroll of the component for a wheel event
Wheel ==
    /\ wheelEvents < MaxWheelEvents
    /\ now \in WheelTimes
    /\ wheelEvents' = wheelEvents + 1
    /\ shHandled' = "wheel"
    /\ IF ~scrollHandler
       THEN UNCHANGED <<shStickiness, shLastScrollTime, shScrollVelocity,
                        shTotalScrollDistance, shScrollStartTime, shIsScrolling,
                        shScrollDirection, shPullForces, shPeakVelocity, timeouts,
                        decayFrames, scrollStickiness>>
       ELSE \E deltaY \in DeltaYs : \E h \in {HandleScroll(deltaY, now)} :
               /\ shStickiness' = h.stickiness
               /\ shScrollVelocity' = h.scrollVelocity
               /\ shTotalScrollDistance' = h.totalScrollDistance
               /\ shScrollStartTime' = h.scrollStartTime
               /\ shScrollDirection' = h.scrollDirection
               /\ shPeakVelocity' = h.peakVelocity
               /\ shPullForces' = h.pullForces
               /\ shIsScrolling' = TRUE
               /\ shLastScrollTime' = now
               /\ decayFrames' = decayFrames + 1
               /\ timeouts' = Append(timeouts, [currentTime |-> now, due |-> now + 200])
               /\ scrollStickiness' = LatchedStickiness(h.stickiness)
    /\ UNCHANGED <<scrollHandler, now, numBlobs, physBlobs, initialized, useSpatialHash,
                   useSpringSystem, gravity, mouse, physCells, ticks, pass, lifecycle,
                   noop, nonScrollVars>>

\* the filter and map of the decay callback on one pull force
AgedForce(force) ==
    [force EXCEPT !.time = @ + FrameDt,
                  !.strength = MulMilli(@, IF force.explosive THEN 995 ELSE 980)]

StillPulling(force) == force.time + FrameDt < (IF force.explosive THEN 3500 ELSE 2000)

\* one run of the decay callback of startDecay: the stickiness, velocity and
\* pull forces it leaves, and whether it requests the next frame
Decay(h) ==
    LET stickiness == MulMilli(h.stickiness, decayRate)
        velocity == MulMilli(h.scrollVelocity, decayRate)
        kept == SelectSeq(h.pullForces, StillPulling)
        forces == [i \in 1..Len(kept) |-> AgedForce(kept[i])]
        again == stickiness > ScrollOne \div 100 \/ Len(forces) > 0
    IN  [stickiness |-> IF again THEN stickiness ELSE 0,
         scrollVelocity |-> IF again THEN velocity ELSE 0,
         pullForces |-> forces,
         requested |-> h.requested + (IF again THEN 1 ELSE 0)]

RECURSIVE RunDecays(_, _)
\* the k decay callbacks requested for a frame, run one after the other
RunDecays(h, k) ==
    IF k = 0 THEN h
    ELSE CHOOSE res \in {RunDecays(d, k - 1) : d \in {Decay(h)}} : TRUE

\* a timeout callback is due
TimeoutDue == \E t \in 1..Len(timeouts) : timeouts[t].due <= now

\* the next animation frame: the clock moves on and the decay callbacks
\* requested for the frame run
Frame ==
    /\ ~TimeoutDue
    /\ now' = Min(now + FrameDt, MaxNow)
    /\ \E h \in {RunDecays([stickiness |-> shStickiness,
                            scrollVelocity |-> shScrollVelocity,
                            pullForces |-> shPullForces,
                            requested |-> 0], decayFrames)} :
          /\ shStickiness' = h.stickiness
          /\ shScrollVelocity' = h.scrollVelocity
          /\ shPullForces' = h.pullForces
          /\ decayFrames' = h.requested
    /\ shHandled' = "frame"
    /\ UNCHANGED <<scrollHandler, shLastScrollTime, shTotalScrollDistance,
                   shScrollStartTime, shIsScrolling, shScrollDirection, shPeakVelocity,
                   timeouts, wheelEvents, physicsVars, nonScrollVars>>

\* if (currentTime - this.lastScrollTime >= 200), for the currentTime the
\* callback's handleScroll call read
SessionOver(currentTime, lastScrollTime) == currentTime - lastScrollTime >= 200

\* the callback of setTimeout(..., 200) set by handleScroll, once due
Timeout ==
    /\ timeouts # <<>>
    /\ Head(timeouts).due <= now
    /\ timeouts' = Tail(timeouts)
    /\ IF SessionOver(Head(timeouts).currentTime, shLastScrollTime)
       THEN /\ shIsScrolling' = FALSE
            /\ shTotalScrollDistance' = 0
            /\ shPeakVelocity' = 0
       ELSE UNCHANGED <<shIsScrolling, shTotalScrollDistance, shPeakVelocity>>
    /\ shHandled' = "timeout"
    /\ UNCHANGED <<scrollHandler, shStickiness, shLastScrollTime, shScrollVelocity,
                   shScrollStartTime, shScrollDirection, shPullForces, decayFrames, now,
                   wheelEvents, physicsVars, nonScrollVars>>

\* the component is mounted: the wheel listener is attached, and the
\* handler fields are those of the ScrollHandler it will construct
ScrollInit ==
    /\ scrollHandler = FALSE
    /\ shStickiness = 0
    /\ shLastScrollTime = 0
    /\ shScrollVelocity = 0
    /\ shTotalScrollDistance = 0
    /\ shScrollStartTime = 0
    /\ shIsScrolling = FALSE
    /\ shScrollDirection = 0
    /\ shPullForces = <<>>
    /\ shPeakVelocity = 0
    /\ timeouts = <<>>
    /\ decayFrames = 0
    /\ now = StartTime
    /\ wheelEvents = 0
    /\ shHandled = "none"

NextScroll == ComponentReady \/ Wheel \/ Frame \/ Timeout

InitScroll == HashIdle /\ SpringIdle /\ HullIdle /\ KernelIdle /\ PhysicsIdle /\ WorkerIdle /\ MotionIdle /\ ScrollInit

SpecScroll == InitScroll /\ [][NextScroll]_vars

\* the browser keeps running frames and due timeout callbacks
SpecScrollFair == SpecScroll /\ WF_vars(Frame) /\ WF_vars(Timeout)

(***************************************************************************)
(* Properties of the simulation                                            *)
(***************************************************************************)
\* C2: in every state reached by init() and ticks, under any latched
\* gravity, scroll stickiness and pointer position, every blob's centre lies
\* in PHYSICS_MIN..PHYSICS_MAX on both axes, and once a tick has run x lies
\* in [PHYSICS_MIN + 0.8 * size, PHYSICS_MAX - 0.8 * size] and y in
\* [PHYSICS_MIN + 1.2 * size, PHYSICS_MAX - 1.2 * size].
C2_CentreStaysInBox ==
    \A b \in 1..Len(physBlobs) :
        LET blob == physBlobs[b]
            marginX == MulMilli(blob.size, 800)
            marginY == MulMilli(blob.size, 1200)
        IN  /\ PHYSICS_MIN <= blob.currentX /\ blob.currentX <= PHYSICS_MAX
            /\ PHYSICS_MIN <= blob.currentY /\ blob.currentY <= PHYSICS_MAX
            /\ ticks > 0 =>
                /\ PHYSICS_MIN + marginX <= blob.currentX
                /\ blob.currentX <= PHYSICS_MAX - marginX
                /\ PHYSICS_MIN + marginY <= blob.currentY
                /\ blob.currentY <= PHYSICS_MAX - marginY

\* a tick under scroll attraction has stopped a blob at the bottom wall
C2_Witness ==
    /\ ticks > 0
    /\ scrollStickiness > 0
    /\ \E b \in 1..Len(physBlobs) :
        /\ physBlobs[b].wallBounceCount > 0
        /\ physBlobs[b].currentY = PHYSICS_MAX - MulMilli(physBlobs[b].size, 1200)

\* the pushes of the last pass that act on blob a because of blob b
PushesOn(a, b) ==
    {k \in 1..Len(pass.log) : pass.log[k].blob = a /\ pass.log[k].other = b}

\* in the last pass, 0 < d < max(personalSpace) for the centres of a and b
Overlapping(a, b) ==
    LET p == pass.start[a]
        q == pass.start[b]
    IN  /\ <<p.currentX, p.currentY>> # <<q.currentX, q.currentY>>
        /\ DistLess(p.currentX, p.currentY, q.currentX, q.currentY,
                    Max(p.personalSpace, q.personalSpace))

\* C9: in one anti-clustering pass, in either collision mode, a blob's
\* velocity changes by the sum of its pushes and by nothing else; there is
\* exactly one push on a blob for each neighbour at a distance d with
\* 0 < d < max(personalSpace of the two), so two overlapping blobs are both
\* pushed and a coincident pair is not pushed at all; and every push has a
\* positive strength and points along the centre line away from the
\* neighbour (to within the rounding of the velocity unit).
C9_PushesPointAway ==
    /\ \A b \in 1..Len(pass.start) :
        /\ pass.after[b].velocityX =
                pass.start[b].velocityX + SumPushes(pass.log, b, "dvX", Len(pass.log))
        /\ pass.after[b].velocityY =
                pass.start[b].velocityY + SumPushes(pass.log, b, "dvY", Len(pass.log))
        /\ pass.after[b].currentX = pass.start[b].currentX
        /\ pass.after[b].currentY = pass.start[b].currentY
    /\ \A a \in 1..Len(pass.start) : \A b \in 1..Len(pass.start) :
        Cardinality(PushesOn(a, b)) = IF a # b /\ Overlapping(a, b) THEN 1 ELSE 0
    /\ \A k \in 1..Len(pass.log) :
        LET e == pass.log[k]
            awayX == pass.start[e.blob].currentX - pass.start[e.other].currentX
            awayY == pass.start[e.blob].currentY - pass.start[e.other].currentY
        IN  /\ e.strength > 0
            /\ e.dvX * awayX >= 0
            /\ e.dvY * awayY >= 0
            /\ Abs(e.dvX * awayY - e.dvY * awayX) <= 5 * (Abs(awayX) + Abs(awayY))

\* a pass has pushed two overlapping blobs, each by a non-zero amount
C9_Witness ==
    \E a \in 1..Len(pass.start) : \E b \in 1..Len(pass.start) :
        /\ a # b
        /\ Overlapping(a, b)
        /\ \E k \in PushesOn(a, b) : <<pass.log[k].dvX, pass.log[k].dvY>> # <<0, 0>>
        /\ \E k \in PushesOn(b, a) : <<pass.log[k].dvX, pass.log[k].dvY>> # <<0, 0>>

\* the fields of the simulation that a caller can observe or that later
\* ticks read
simulationState == <<numBlobs, physBlobs, initialized, useSpatialHash, useSpringSystem, gravity,
                     scrollStickiness, mouse, physCells>>

\* C13: in every reachable state isReady() is true exactly when the last
\* lifecycle call was init, a ready simulation holds as many blobs as the
\* count given to the constructor, and after dispose the collection is empty
C13_ReadyIffInitAndCountFixed ==
    /\ IsReady <=> lifecycle = "init"
    /\ IsReady => Len(physBlobs) = numBlobs
    /\ lifecycle = "dispose" => physBlobs = <<>>

\* the same three statements for the counts that are not negative
C13_CountFixedWhenNotNegative ==
    numBlobs >= 0 => C13_ReadyIffInitAndCountFixed

\* C14: a tick on a simulation that is not initialized changes nothing of the
\* simulation (blobs, latched inputs, readiness, hash)
C14_UninitializedTickIsNoOp ==
    [][(~initialized /\ noop' = "tick") => UNCHANGED simulationState]_vars

\* a tick was called after dispose, with the hash of the earlier run still
\* filled
C14_Witness ==
    /\ noop = "tick"
    /\ lifecycle = "dispose"
    /\ physCells # <<>>

\* C15: init() on an initialized simulation leaves the blob collection and the
\* rest of the simulation as they were
C15_RepeatedInitKeepsBlobs ==
    [][(initialized /\ noop' = "init") => UNCHANGED simulationState]_vars

\* init() was called again between two ticks
C15_Witness ==
    /\ noop = "init"
    /\ ticks > 0
    /\ ticks < MaxTicks
    /\ Len(physBlobs) = NumBlobs

\* C16: no simulation holding a negative blob count is ever initialized
C16_NegativeCountNeverInitialized ==
    numBlobs < 0 => ~IsReady

\* the number of pushes of log that act on blob b
PushCount(log, b) == Cardinality({k \in 1..Len(log) : log[k].blob = b})

\* twice the spatial-hash value h is the pairwise value p, up to one unit of
\* rounding for each of the n pushes summed
HalfOf(h, p, n) == Abs(2 * h - p) <= n

\* C20: for the same blob positions, the spatial-hash pass changes the
\* velocity of every blob by half of what the pairwise pass does, with one
\* half-strength push per blob of each overlapping pair, and both passes
\* stamp lastRepulsionTime on the same blobs (the blobs they push)
C20_HashPassIsHalfOfPairPass ==
    LET bs == pass.start
        hashLog == IF useSpatialHash THEN pass.log ELSE pass.other
        pairLog == IF useSpatialHash THEN pass.other ELSE pass.log
    IN  /\ Len(hashLog) = Len(pairLog)
        /\ \A k \in 1..Len(pairLog) :
              Cardinality({h \in 1..Len(hashLog) :
                    /\ hashLog[h].blob = pairLog[k].blob
                    /\ hashLog[h].other = pairLog[k].other
                    /\ HalfOf(hashLog[h].strength, pairLog[k].strength, 1)
                    /\ HalfOf(hashLog[h].dvX, pairLog[k].dvX, 1)
                    /\ HalfOf(hashLog[h].dvY, pairLog[k].dvY, 1)}) = 1
        /\ \A b \in 1..Len(bs) :
              /\ HalfOf(SumPushes(hashLog, b, "dvX", Len(hashLog)),
                        SumPushes(pairLog, b, "dvX", Len(pairLog)),
                        PushCount(pairLog, b))
              /\ HalfOf(SumPushes(hashLog, b, "dvY", Len(hashLog)),
                        SumPushes(pairLog, b, "dvY", Len(pairLog)),
                        PushCount(pairLog, b))
              /\ (PushCount(hashLog, b) > 0) <=> (PushCount(pairLog, b) > 0)

\* a spatial-hash pass pushed two blobs of different sizes apart, obliquely
C20_Witness ==
    /\ useSpatialHash
    /\ Len(pass.log) = 2
    /\ pass.log[1].strength # pass.log[2].strength
    /\ pass.log[1].dvX # 0
    /\ pass.log[1].dvY # 0
    /\ pass.after[1].lastRepulsionTime = 1

\* C17: in the worker, a tick handled after 'ready' was posted for the
\* instance held, and before its dispose, posts exactly one 'frame' with one
\* entry per blob; a tick handled before 'ready' or after dispose posts
\* nothing, and no other handler posts a 'frame'
C17_OneFramePerReadyTick ==
    /\ (handled = "tick" /\ readyPosted) =>
            /\ Len(posted) = 1
            /\ posted[1].type = "frame"
            /\ Len(posted[1].blobs) = Len(physBlobs)
            /\ numBlobs >= 0 => Len(posted[1].blobs) = numBlobs
    /\ (handled = "tick" /\ ~readyPosted) => posted = <<>>
    /\ \A k \in 1..Len(posted) :
            posted[k].type = "frame" => (handled = "tick" /\ readyPosted)

\* the second tick after 'ready' posted its frame
C17_Witness ==
    /\ handled = "tick"
    /\ readyPosted
    /\ ticks = MaxTicks
    /\ Len(posted) = 1
    /\ Len(posted[1].blobs) = NumBlobs

\* the two pushes of the pairwise pass on the pair whose first push is k
PairOf(k) == {h \in 1..Len(pass.log) :
                /\ pass.log[h].blob = pass.log[k].other
                /\ pass.log[h].other = pass.log[k].blob}

C22_QueriesSeeFreshIndex ==
    (useSpatialHash /\ pass # NoPass) =>
        /\ physCells = RebuildCells(PhysicsCellSize, HashView(pass.start))
        /\ HashView(pass.after) = HashView(pass.start)
        /\ pass.log = HashPassLog(pass.start,
                                  RebuildCells(PhysicsCellSize, HashView(pass.start)))

\* the second tick of a run queried an index that differs from the one the
\* first tick had left
C22_Witness ==
    /\ useSpatialHash
    /\ ticks = MaxTicks
    /\ Len(pass.log) > 0
    /\ HashView(physBlobs) # HashView(pass.start)
    /\ physCells # RebuildCells(PhysicsCellSize, HashView(physBlobs))

\* C23: for every boundary of n >= 3 points and every kernel size, each index
\* (i + j - half + n) mod n that convolve computes lies in 0..n-1, and every
\* radius it leaves is a sum of existing radii (not NaN)
C23_CircularIndexInRange ==
    (kernPhase = "convolved" /\ Len(kernStart) >= 3) =>
        /\ \A i \in 0..(Len(kernStart) - 1) : \A j \in 0..(kernSize - 1) :
              CircularIndex(i, j, HalfSize(kernSize), Len(kernStart))
                    \in 0..(Len(kernStart) - 1)
        /\ \A i \in 1..Len(kernPts) : kernPts[i] # NaN

\* the same for the kernels whose half size is at most the number of points
C23_InRangeWhenHalfFits ==
    (kernPhase = "convolved" /\ Len(kernStart) >= 3
        /\ HalfSize(kernSize) <= Len(kernStart)) =>
        C23_CircularIndexInRange

\* the entries of the given kinds in the chaos log of blob b's last tick
ChaosEntries(b, kinds) ==
    {k \in 1..Len(physBlobs[b].chaosLog) : physBlobs[b].chaosLog[k].kind \in kinds}

\* C24: on every tick, in either deformation mode, the chaosLevel of each
\* blob is multiplied by its turbulenceDecay (0.985)
C24_ChaosDecaysEveryTick ==
    \A b \in 1..Len(physBlobs) : \A k \in ChaosEntries(b, {"deform"}) :
        physBlobs[b].chaosLog[k].after = MulMilli(physBlobs[b].chaosLog[k].before, 985)

\* the same in spring-deformation mode only
C24_ChaosDecaysInSpringMode ==
    useSpringSystem => C24_ChaosDecaysEveryTick

\* C25: a wall bounce, a strong-gravity bump or a high-stickiness scroll bump
\* leaves the chaosLevel at least as large as it was just before
C25_DisturbanceNeverLowersChaos ==
    \A b \in 1..Len(physBlobs) :
        \A k \in ChaosEntries(b, {"gravity", "scroll", "bounce"}) :
            physBlobs[b].chaosLog[k].after >= physBlobs[b].chaosLog[k].before

\* the same for the levels that are at most the lower cap 0.15 before the bump
C25_NeverLowersBelowLowerCap ==
    \A b \in 1..Len(physBlobs) :
        \A k \in ChaosEntries(b, {"gravity", "scroll", "bounce"}) :
            physBlobs[b].chaosLog[k].before <= 150000 =>
                physBlobs[b].chaosLog[k].after >= physBlobs[b].chaosLog[k].before

(***************************************************************************)
(* Properties of the boundary                                              *)
(***************************************************************************)
\* the radius of control point i lies in the band of its own baseRadius
InBand(i) ==
    /\ sprPts[i].radius >= MinRadius(sprPts[i].baseRadius)
    /\ sprPts[i].radius <= MaxRadius(sprPts[i].baseRadius)

\* C26: at the end of every tick in spring-deformation mode, the radius of
\* every boundary point lies within
\* [baseRadius * (1 - maxDeformation), baseRadius * (1 + maxDeformation)] of
\* that point's own baseRadius
C26_RadiiStayInBand ==
    sprPhase = "updated" => \A i \in 1..Len(sprPts) : InBand(i)

\* all the points of the boundary have the same baseRadius
SameBaseRadius ==
    \A i \in 1..Len(sprPts) : sprPts[i].baseRadius = sprPts[1].baseRadius

\* the band holds at the end of every tick for a boundary whose points share
\* one baseRadius
C26_UniformBoundaryStaysInBand ==
    (sprPhase = "updated" /\ SameBaseRadius) => \A i \in 1..Len(sprPts) : InBand(i)

\* the boundary has been deformed by two ticks
C26_TwoTicksDeformed ==
    /\ sprPhase = "updated"
    /\ ticks = 2
    /\ \E i \in 1..Len(sprPts) : sprPts[i].radius # sprPts[i].baseRadius

\* the blobs and the boundary that tick(dt, time) leaves, from the blobs
\* after the anti-clustering pass and the draws of the tick just made
TickLeaves(dt) ==
    /\ physBlobs' = [b \in 1..Len(pass'.after) |->
                        UpdateScreensaverPhysics(pass'.after[b], dt, gravity,
                                                 scrollStickiness, mouse,
                                                 pass'.rnd, useSpringSystem)]
    /\ \E u \in {UpdateSafeOrganicDeformation(
                    sprPts, sprVel,
                    BeforeDeformation(pass'.after[1], gravity, pass'.rnd),
                    dt, pass'.rnd)} :
            /\ sprPts' = u.pts
            /\ sprVel' = u.vel

\* C27: the state produced by tick(dt, time) does not depend on dt: the
\* positions, velocities and boundary radii a tick leaves are those the same
\* tick leaves, from the same state and with the same draws, for every
\* other dt
C27_TickIgnoresDeltaTime ==
    [][(initialized /\ ticks' = ticks + 1) => \A dt \in DeltaTimes : TickLeaves(dt)]_vars

\* a tick given a dt other than 0.016 has moved the blob and its boundary
C27_Witness ==
    /\ ticks > 0
    /\ pass.deltaTime # FrameDt
    /\ sprPhase = "updated"
    /\ physBlobs[1].currentX # pass.start[1].currentX
    /\ \E i \in 1..Len(sprPts) : sprPts[i].radius # sprPts[i].baseRadius

(***************************************************************************)
(* Properties of DeviceMotion                                              *)
(***************************************************************************)
\* C29: once cleanup() has returned, no devicemotion or deviceorientation
\* listener of the instance is attached, whether cleanup() was called
\* before, during or after initialize()
C29_NoListenerAfterCleanup == dmCleanedUp # "no" => dmListeners = {}

\* no listener is attached after a cleanup() called once initialize() has
\* returned
C29_NoListenerAfterLateCleanup == dmCleanedUp = "returned" => dmListeners = {}

\* cleanup() has removed the listener that initialize() attached
C29_ListenerRemoved ==
    /\ dmCleanedUp = "returned"
    /\ dmDelivered # <<>>
    /\ dmListeners = {}

(***************************************************************************)
(* Properties of the scroll handling                                       *)
(***************************************************************************)
\* if (this.scrollStickiness > 0.01) of updateScreensaverPhysics: the scroll
\* attraction and the scroll chaos bump are applied
ScrollEffectApplies == scrollStickiness > 10

\* C28: after the last wheel event the scroll stickiness latched in the
\* physics eventually falls to 0.01 or below, and the scroll effect stops
C28_LatchedStickinessFalls == <>[](~ScrollEffectApplies)

\* the stickiness of the ScrollHandler itself does decay to 0 after the
\* last wheel event
C28_HandlerStickinessFalls == <>[](shStickiness = 0)

\* the latched scrollStickiness changes in the wheel handler only
C28_LatchedOnlyByWheel ==
    [][shHandled' # "wheel" => scrollStickiness' = scrollStickiness]_vars

\* C30: once 200 ms have passed since the last handled wheel event and the
\* timeout callbacks due have run, isActivelyScrolling() is false and the
\* distance and peak velocity of the session are reset
C30_SessionEndsAfter200ms ==
    (/\ shLastScrollTime > 0
     /\ now - shLastScrollTime >= 200
     /\ ~TimeoutDue)
        => (~shIsScrolling /\ shTotalScrollDistance = 0 /\ shPeakVelocity = 0)

\* the currentTime of a pending timeout callback is never later than
\* lastScrollTime, and isScrolling stays true once a wheel event was handled
C30_SessionNeverEnds ==
    /\ \A t \in 1..Len(timeouts) : timeouts[t].currentTime <= shLastScrollTime
    /\ shLastScrollTime > 0 => shIsScrolling
====
